---- MODULE Spec2Model ----
(***************************************************************************)
(* Verification model of liminal-orm's reconciliation and revision core:   *)
(* the dropdown diff (dropdowns/compare.py), the dropdown operations       *)
(* (dropdowns/operations.py), the operation scheduler and executor         *)
(* (migrate/components.py) and the revisions timeline                       *)
(* (migrate/revisions_timeline.py).                                         *)
(*                                                                         *)
(* Option names and field names are small integers; resource names are     *)
(* strings.  Python lists are sequences; list indexes stay 0-based where   *)
(* the code stores them in an operation (index=...).                       *)
(***************************************************************************)
EXTENDS Integers, Sequences, FiniteSets, TLC

\* ------------------------------------------------------------------ bounds
\* number of distinct dropdown option names
NumOptions == 3

\* ------------------------------------------------------- python list helpers
Range(s) == {s[i] : i \in DOMAIN s}

IsUnique(s) == \A i, j \in DOMAIN s : s[i] = s[j] => i = j

\* all duplicate-free lists over S
UniqueLists(S) ==
  UNION {{s \in [1..n -> S] : IsUnique(s)} : n \in 0..Cardinality(S)}

\* the orders in which iterating a Python set may yield its elements
SetIterationOrders(S) == {s \in [1..Cardinality(S) -> S] : IsUnique(s)}

\* list.index(x): 0-based position of the first x
ListIndex(s, x) ==
  (CHOOSE i \in DOMAIN s : s[i] = x /\ \A j \in 1..(i - 1) : s[j] # x) - 1

\* list.insert(i, x) for i >= 0: positions past the end append
ListInsert(s, i, x) ==
  LET k == IF i > Len(s) THEN Len(s) ELSE i
  IN SubSeq(s, 1, k) \o <<x>> \o SubSeq(s, k + 1, Len(s))

\* reversed(list)
Reversed(s) == [i \in 1..Len(s) |-> s[Len(s) + 1 - i]]

\* [f(x) for x in s]
RECURSIVE Flatten(_)
Flatten(ss) == IF ss = <<>> THEN <<>> ELSE Head(ss) \o Flatten(Tail(ss))

\* ------------------------------------------------------------- operations
\* One record shape for every operation kind: the resource it targets, the
\* sub-element (option or field; 0 when none), the index, the list argument
\* (new_order / dropdown_options / fields) and the properties argument
\* (update_props / schema_properties; the empty dict when none).
NoProps == <<>>

Operation(kind, target, sub, index, list, props) ==
  [kind |-> kind, target |-> target, sub |-> sub, index |-> index,
   list |-> list, props |-> props]

CreateDropdown(name, options) ==
  Operation("CreateDropdown", name, 0, 0, options, NoProps)
ArchiveDropdown(name) == Operation("ArchiveDropdown", name, 0, 0, <<>>, NoProps)
UnarchiveDropdown(name) == Operation("UnarchiveDropdown", name, 0, 0, <<>>, NoProps)
CreateDropdownOption(name, option, index) ==
  Operation("CreateDropdownOption", name, option, index, <<>>, NoProps)
ArchiveDropdownOption(name, option, index) ==
  Operation("ArchiveDropdownOption", name, option, index, <<>>, NoProps)
ReorderDropdownOptions(name, new_order) ==
  Operation("ReorderDropdownOptions", name, 0, 0, new_order, NoProps)

CreateEntitySchema(wh_name, schema_properties, fields) ==
  Operation("CreateEntitySchema", wh_name, 0, 0, fields, schema_properties)
ArchiveEntitySchema(wh_name) ==
  Operation("ArchiveEntitySchema", wh_name, 0, 0, <<>>, NoProps)
UnarchiveEntitySchema(wh_name) ==
  Operation("UnarchiveEntitySchema", wh_name, 0, 0, <<>>, NoProps)
UpdateEntitySchema(wh_name, update_props) ==
  Operation("UpdateEntitySchema", wh_name, 0, 0, <<>>, update_props)
ArchiveEntitySchemaField(wh_name, field, index) ==
  Operation("ArchiveEntitySchemaField", wh_name, field, index, <<>>, NoProps)
UnarchiveEntitySchemaField(wh_name, field, index) ==
  Operation("UnarchiveEntitySchemaField", wh_name, field, index, <<>>, NoProps)
UpdateEntitySchemaField(wh_name, field, update_props) ==
  Operation("UpdateEntitySchemaField", wh_name, field, 0, <<>>, update_props)
ReorderEntitySchemaFields(wh_name, new_order) ==
  Operation("ReorderEntitySchemaFields", wh_name, 0, 0, new_order, NoProps)

CompareOperation(op, reverse_op) == [op |-> op, reverse_op |-> reverse_op]

\* the order class variable of every operation kind
order(op) ==
  CASE op.kind = "CreateDropdown" -> 10
    [] op.kind = "UpdateDropdownName" -> 20
    [] op.kind = "UnarchiveDropdown" -> 30
    [] op.kind = "CreateDropdownOption" -> 40
    [] op.kind = "UpdateDropdownOption" -> 50
    [] op.kind = "ArchiveDropdownOption" -> 60
    [] op.kind = "ReorderDropdownOptions" -> 70
    [] op.kind = "CreateEntitySchema" -> 80
    [] op.kind = "UpdateEntitySchema" -> 90
    [] op.kind = "UpdateEntitySchemaName" -> 100
    [] op.kind = "UnarchiveEntitySchema" -> 110
    [] op.kind = "CreateEntitySchemaField" -> 120
    [] op.kind = "UnarchiveEntitySchemaField" -> 130
    [] op.kind = "UpdateEntitySchemaField" -> 14
    [] op.kind = "UpdateEntitySchemaFieldName" -> 150
    [] op.kind = "ArchiveEntitySchemaField" -> 160
    [] op.kind = "ReorderEntitySchemaFields" -> 170
    [] op.kind = "ArchiveEntitySchema" -> 180
    [] op.kind = "ArchiveDropdown" -> 190

\* CompareOperation.__lt__
CompareOperationLt(a, b) == order(a.op) < order(b.op)

\* sorted() over CompareOperations: a stable sort that only uses __lt__.
\* Each element is placed before the first already-placed element it is less
\* than, so elements that are not less than one another keep their order.
RECURSIVE SortedInsert(_, _)
SortedInsert(s, x) ==
  IF s = <<>> THEN <<x>>
  ELSE IF CompareOperationLt(x, s[Len(s)])
       THEN SortedInsert(SubSeq(s, 1, Len(s) - 1), x) \o <<s[Len(s)]>>
       ELSE s \o <<x>>

RECURSIVE SortedFrom(_, _)
SortedFrom(done, rest) ==
  IF rest = <<>> THEN done
  ELSE SortedFrom(SortedInsert(done, Head(rest)), Tail(rest))

sorted(ops) == SortedFrom(<<>>, ops)

\* --------------------------------------------------- the remote dropdown
\* A remote dropdown: whether it exists at all, its archive_record, and its
\* options in remote order, each with its own archive_record.
OptionNames == 1..NumOptions

DropdownOption(name, archived) == [name |-> name, archived |-> archived]

NoDropdown == [exists |-> FALSE, archived |-> FALSE, options |-> <<>>]

\* every remote option list: unique names, any archived flags
RemoteOptionLists ==
  UNION {{[i \in DOMAIN names |-> DropdownOption(names[i], flags[i])] :
            flags \in [DOMAIN names -> BOOLEAN]} : names \in UniqueLists(OptionNames)}

RemoteDropdowns ==
  {NoDropdown} \cup
  {[exists |-> TRUE, archived |-> a, options |-> o] :
     a \in BOOLEAN, o \in RemoteOptionLists}

\* [o.name for o in options]
Names(options) == [i \in DOMAIN options |-> options[i].name]

\* [o for o in options if o.archive_record is None]
ActiveOptions(options) == SelectSeq(options, LAMBDA o : ~o.archived)

\* [o for o in options if o.archive_record is not None]
ArchivedOptions(options) == SelectSeq(options, LAMBDA o : o.archived)

\* [o.name for o in options if o.archive_record is None]
ActiveNames(options) == Names(ActiveOptions(options))

\* the name of the one declared dropdown (__benchling_name__)
DropdownName == "D"

\* -------------------------------------------------------- compare_dropdowns
\* benchling_options: every option of a dropdown that is to be unarchived,
\* the active options otherwise
BenchlingOptions(bd) ==
  IF bd.archived THEN Names(bd.options) ELSE ActiveNames(bd.options)

\* every declared option, whatever the remote dropdown holds
OptionsToCreateAll(allowed_values, bd) == allowed_values

\* options_to_create
OptionsToCreate(allowed_values, bd) ==
  IF bd.archived THEN allowed_values
  ELSE SelectSeq(allowed_values, LAMBDA o : o \notin Range(BenchlingOptions(bd)))

\* options_to_archive = set(benchling_options) - set(allowed_values)
OptionsToArchive(allowed_values, bd) ==
  Range(BenchlingOptions(bd)) \ Range(allowed_values)

\* recreated_benchling_options
RecreatedBenchlingOptions(allowed_values, bd) ==
  SelectSeq(BenchlingOptions(bd), LAMBDA o : o \in Range(allowed_values))

\* recreated_model_options
RecreatedModelOptions(allowed_values, bd) ==
  SelectSeq(allowed_values,
            LAMBDA o : o \in Range(RecreatedBenchlingOptions(allowed_values, bd)))

\* the option-level pairs of an existing dropdown; archive_order is the order
\* in which the set options_to_archive is iterated
OptionPairs(allowed_values, bd, archive_order) ==
  LET benchling_options == BenchlingOptions(bd)
      options_to_create == OptionsToCreate(allowed_values, bd)
      archive_pairs ==
        [i \in DOMAIN archive_order |->
           CompareOperation(
             ArchiveDropdownOption(DropdownName, archive_order[i],
                                   ListIndex(benchling_options, archive_order[i])),
             CreateDropdownOption(DropdownName, archive_order[i],
                                  ListIndex(benchling_options, archive_order[i])))]
      create_pairs ==
        [i \in DOMAIN options_to_create |->
           CompareOperation(
             CreateDropdownOption(DropdownName, options_to_create[i],
                                  ListIndex(allowed_values, options_to_create[i])),
             ArchiveDropdownOption(DropdownName, options_to_create[i],
                                   ListIndex(allowed_values, options_to_create[i])))]
      reorder_pairs ==
        IF RecreatedBenchlingOptions(allowed_values, bd)
             # RecreatedModelOptions(allowed_values, bd)
        THEN <<CompareOperation(
                 ReorderDropdownOptions(DropdownName, allowed_values),
                 ReorderDropdownOptions(DropdownName,
                                        RecreatedBenchlingOptions(allowed_values, bd)))>>
        ELSE <<>>
  IN archive_pairs \o create_pairs \o reorder_pairs

\* the pair list compare_dropdowns builds for the declared dropdown whose
\* __allowed_values__ are allowed_values, against the remote dropdown bd
compare_dropdowns(allowed_values, bd, archive_order) ==
  IF ~bd.exists
  THEN <<CompareOperation(CreateDropdown(DropdownName, allowed_values),
                          ArchiveDropdown(DropdownName))>>
  ELSE (IF bd.archived
        THEN <<CompareOperation(UnarchiveDropdown(DropdownName),
                                ArchiveDropdown(DropdownName))>>
        ELSE <<>>)
       \o (IF BenchlingOptions(bd) # allowed_values \/ bd.archived
           THEN OptionPairs(allowed_values, bd, archive_order)
           ELSE <<>>)

\* ------------------------------------- compare_dropdowns, every dropdown
\* the name of the remote dropdown that no class declares
UndeclaredName == "U"

\* dropdown_names = None
NoNames == [given |-> FALSE, names |-> {}]

\* every dropdown_names argument: None, or a set of names
DropdownNames ==
  {NoNames} \cup
  {[given |-> TRUE, names |-> s] : s \in SUBSET {DropdownName, UndeclaredName}}

\* BaseDropdown.get_all_subclasses(names), the declared dropdown being the
\* one subclass: raises when a name matches no subclass
get_all_subclasses(names) ==
  IF ~names.given THEN [raised |-> FALSE, value |-> <<DropdownName>>]
  ELSE LET dropdowns == names.names \cap {DropdownName}
       IN IF Cardinality(dropdowns) # Cardinality(names.names)
          THEN [raised |-> TRUE, value |-> <<>>]
          ELSE [raised |-> FALSE,
                value |-> IF dropdowns = {} THEN <<>> ELSE <<DropdownName>>]

\* "if dropdown_names:" is taken for a non-empty set only
IsFiltered(names) == names.given /\ names.names # {}

\* benchling_dropdowns[name] raises KeyError: a model dropdown selected by
\* dropdown_names does not exist remotely
BenchlingDropdownMissing(bd, names) ==
  /\ IsFiltered(names)
  /\ DropdownName \in Range(get_all_subclasses(names).value)
  /\ ~bd.exists

\* the keys of benchling_dropdowns: every remote dropdown, or with
\* dropdown_names only those of the model dropdowns
BenchlingDropdownNames(bd, other, names) ==
  IF IsFiltered(names) THEN Range(get_all_subclasses(names).value)
  ELSE {n \in {DropdownName} : bd.exists} \cup
       {n \in {UndeclaredName} : other.exists}

\* every key of benchling_dropdowns, the archived dropdowns included
AllBenchlingDropdownNames(bd, other, names) ==
  BenchlingDropdownNames(bd, other, names)

\* active_benchling_dropdown_names
ActiveBenchlingDropdownNames(bd, other, names) ==
  {n \in BenchlingDropdownNames(bd, other, names) :
     IF n = DropdownName THEN ~bd.archived ELSE ~other.archived}

\* the active remote dropdowns, the processed ones included
DropdownsToArchiveProcessed(bd, other, names) ==
  ActiveBenchlingDropdownNames(bd, other, names)

\* set(active_benchling_dropdown_names) - processed_benchling_names
DropdownsToArchive(bd, other, names) ==
  ActiveBenchlingDropdownNames(bd, other, names)
    \ Range(get_all_subclasses(names).value)

NoDropdownDiff ==
  [raised |-> FALSE, processed |-> {}, model_operations |-> <<>>,
   archive |-> <<>>]

\* compare_dropdowns(benchling_service, dropdown_names): raised when it
\* raises, otherwise processed_benchling_names, the pair list of the declared
\* dropdown and the "Archive" list; dropdown_order is the order in which the
\* set of dropdowns to archive is iterated
compare_dropdowns_named(allowed_values, bd, other, names, archive_order, dropdown_order) ==
  LET model_dropdowns == get_all_subclasses(names)
      archive_ops ==
        [i \in DOMAIN dropdown_order |->
           CompareOperation(ArchiveDropdown(dropdown_order[i]),
                            UnarchiveDropdown(dropdown_order[i]))]
  IN IF model_dropdowns.raised \/ BenchlingDropdownMissing(bd, names)
     THEN [NoDropdownDiff EXCEPT !.raised = TRUE]
     ELSE [raised |-> FALSE,
           processed |-> Range(model_dropdowns.value),
           model_operations |->
             IF model_dropdowns.value = <<>> THEN <<>>
             ELSE compare_dropdowns(allowed_values, bd, archive_order),
           archive |-> archive_ops]

\* get_full_migration_operations: the dropdown pairs followed by the entity
\* schema pairs, sorted
get_full_migration_operations(dropdown_operations, entity_schema_operations) ==
  sorted(dropdown_operations \o entity_schema_operations)

\* ---------------------------------------------------- entity schema state
\* number of distinct field (column) warehouse names
NumFields == 2

FieldNames == 1..NumFields

\* BaseFieldProperties, reduced to the tooltip ("None" when not set)
FieldProperties == [tooltip : {"None", "tip"}]

\* BenchlingNamingStrategy.is_template_based
is_template_based(strategy) ==
  strategy \in {"SET_FROM_NAME_PARTS", "REPLACE_NAMES_FROM_PARTS"}

\* BaseSchemaProperties, reduced to the naming strategies (never empty)
SchemaProperties ==
  [naming_strategies :
     {{"NEW_IDS"}, {"SET_FROM_NAME_PARTS"}, {"NEW_IDS", "SET_FROM_NAME_PARTS"}}]

\* the warehouse name of the one declared schema
SchemaName == "S"

\* a model column: warehouse name and properties
Column(name, props) == [name |-> name, props |-> props]

\* a remote field: warehouse name, properties and _archived
RemoteField(name, props, archived) ==
  [name |-> name, props |-> props, archived |-> archived]

NoModel == [defined |-> FALSE, props |-> NoProps, columns |-> <<>>]

\* the declared models: none, or one with ordered, uniquely named columns.
\* Its name template is the default one and its warehouse name is the snake
\* case of its name.
Models ==
  {NoModel} \cup
  UNION {UNION {{[defined |-> TRUE, props |-> p,
                  columns |-> [i \in DOMAIN names |-> Column(names[i], fp[i])]] :
                   fp \in [DOMAIN names -> FieldProperties]} :
                  names \in UniqueLists(FieldNames)} :
           p \in SchemaProperties}

NoSchema == [exists |-> FALSE, archived |-> FALSE, props |-> NoProps, fields |-> <<>>]

\* the remote schema of that warehouse name: none, or one with ordered,
\* uniquely named fields, each active or archived; same name template
RemoteSchemas ==
  {NoSchema} \cup
  UNION {UNION {{[exists |-> TRUE, archived |-> a, props |-> p,
                  fields |-> [i \in DOMAIN names |->
                                RemoteField(names[i], fp[i], fa[i])]] :
                   fp \in [DOMAIN names -> FieldProperties],
                   fa \in [DOMAIN names -> BOOLEAN]} :
                  names \in UniqueLists(FieldNames)} :
           p \in SchemaProperties, a \in BOOLEAN}

\* BaseFieldProperties.merge / BaseSchemaProperties.merge: the keys of
\* new_props whose value differs from self, with new_props' value
merge(self, new_props) ==
  [k \in {n \in DOMAIN new_props : self[n] # new_props[n]} |-> new_props[k]]

\* BaseFieldProperties with three of its fields, each None ("None") or set
PropertyBags ==
  [name : {"None", "a", "b"}, required : {"None", "True", "False"},
   tooltip : {"None", "tip"}]

\* BaseFieldProperties(): every field None
NoBag == [name |-> "None", required |-> "None", tooltip |-> "None"]

\* BaseFieldProperties(**diff), the update_props of UpdateEntitySchemaField:
\* the fields of the dictionary are set, the others keep their default None
BaseFieldProperties(diff) ==
  [values |-> [k \in DOMAIN NoBag |-> IF k \in DOMAIN diff THEN diff[k] ELSE "None"],
   fields_set |-> DOMAIN diff]

\* the set fields that are not None
model_dump_exclude_none(update_props) ==
  [k \in {n \in update_props.fields_set : update_props.values[n] # "None"} |->
     update_props.values[k]]

\* update_props.model_dump(exclude_unset=True)
model_dump_exclude_unset(update_props) ==
  [k \in update_props.fields_set |-> update_props.values[k]]

\* TagSchemaFieldModel.update_from_props for name, required and tooltip: the
\* fields in the dictionary take its value, the others are kept
update_from_props(props, update_diff) ==
  [k \in DOMAIN props |-> IF k \in DOMAIN update_diff THEN update_diff[k] ELSE props[k]]

\* list(model_columns.keys())
ColumnNames(columns) == [i \in DOMAIN columns |-> columns[i].name]

\* model_columns[name].properties / benchling_schema_fields[name]
PropsOf(fields, name) ==
  fields[CHOOSE i \in DOMAIN fields : fields[i].name = name].props

\* ------------------------------------------------- compare_entity_schemas
\* the pairs of the loop over the active remote fields
ActiveFieldPairs(model, bs) ==
  LET active == SelectSeq(bs.fields, LAMBDA f : ~f.archived)
      pairs(f) ==
        IF f.name \notin Range(ColumnNames(model.columns))
        THEN <<CompareOperation(ArchiveEntitySchemaField(SchemaName, f.name, -1),
                                UnarchiveEntitySchemaField(SchemaName, f.name, -1))>>
        ELSE IF PropsOf(model.columns, f.name) # f.props
        THEN <<CompareOperation(
                 UpdateEntitySchemaField(SchemaName, f.name,
                    merge(f.props, PropsOf(model.columns, f.name))),
                 UpdateEntitySchemaField(SchemaName, f.name,
                    merge(PropsOf(model.columns, f.name), f.props)))>>
        ELSE <<>>
  IN Flatten([i \in DOMAIN active |-> pairs(active[i])])

\* recreated_benchling_fields: every remote field, archived ones too, that
\* the model declares
RecreatedBenchlingFields(model, bs) ==
  SelectSeq([i \in DOMAIN bs.fields |-> bs.fields[i].name],
            LAMBDA f : f \in Range(ColumnNames(model.columns)))

\* recreated_model_fields
RecreatedModelFields(model, bs) ==
  SelectSeq(ColumnNames(model.columns),
            LAMBDA f : f \in Range(RecreatedBenchlingFields(model, bs)))

ReorderFieldPairs(model, bs) ==
  IF RecreatedModelFields(model, bs) # RecreatedBenchlingFields(model, bs)
  THEN <<CompareOperation(
           ReorderEntitySchemaFields(SchemaName, ColumnNames(model.columns)),
           ReorderEntitySchemaFields(SchemaName, RecreatedBenchlingFields(model, bs)))>>
  ELSE <<>>

\* columns_missing_from_benchling_schema
ColumnsMissing(model, bs) ==
  Range(ColumnNames(model.columns))
    \ {bs.fields[i].name : i \in {j \in DOMAIN bs.fields : ~bs.fields[j].archived}}

ArchivedFieldNames(bs) ==
  {bs.fields[i].name : i \in {j \in DOMAIN bs.fields : bs.fields[j].archived}}

\* the call CreateEntitySchemaField(model_wh_name, field_props=..., index=...)
\* omits the wh_field_name that CreateEntitySchemaField.__init__ requires, so
\* reaching it raises: some missing column is not an archived remote field
CreateFieldRaises(model, bs) ==
  ColumnsMissing(model, bs) \ ArchivedFieldNames(bs) # {}

\* the unarchive pairs alone, whatever the properties of the archived fields
MissingColumnPairsUnarchiveOnly(model, bs, missing_order) ==
  [i \in DOMAIN missing_order |->
     CompareOperation(
       UnarchiveEntitySchemaField(SchemaName, missing_order[i],
         ListIndex(ColumnNames(model.columns), missing_order[i])),
       ArchiveEntitySchemaField(SchemaName, missing_order[i],
         ListIndex(ColumnNames(model.columns), missing_order[i])))]

\* the pairs of the loop over the missing columns, iterated in missing_order
MissingColumnPairs(model, bs, missing_order) ==
  LET pairs(c) ==
        <<CompareOperation(
            UnarchiveEntitySchemaField(SchemaName, c,
                                       ListIndex(ColumnNames(model.columns), c)),
            ArchiveEntitySchemaField(SchemaName, c,
                                     ListIndex(ColumnNames(model.columns), c)))>>
        \o (IF PropsOf(bs.fields, c) # PropsOf(model.columns, c)
            THEN <<CompareOperation(
                     UpdateEntitySchemaField(SchemaName, c,
                        merge(PropsOf(bs.fields, c), PropsOf(model.columns, c))),
                     UpdateEntitySchemaField(SchemaName, c,
                        merge(PropsOf(model.columns, c), PropsOf(bs.fields, c))))>>
            ELSE <<>>)
  IN Flatten([i \in DOMAIN missing_order |-> pairs(missing_order[i])])

\* the pairs for a model whose schema exists remotely
ExistingSchemaPairs(model, bs, missing_order) ==
  (IF bs.archived
   THEN <<CompareOperation(UnarchiveEntitySchema(SchemaName),
                           ArchiveEntitySchema(SchemaName))>>
   ELSE <<>>)
  \o ActiveFieldPairs(model, bs)
  \o ReorderFieldPairs(model, bs)
  \o MissingColumnPairs(model, bs, missing_order)
  \o (IF bs.props # model.props
      THEN <<CompareOperation(
               UpdateEntitySchema(SchemaName, merge(bs.props, model.props)),
               UpdateEntitySchema(SchemaName, merge(model.props, bs.props)))>>
      ELSE <<>>)

\* standard_naming_strategies
StandardNamingStrategies(model) ==
  LET standard == {x \in model.props.naming_strategies : ~is_template_based(x)}
  IN IF standard = {} THEN {"NEW_IDS"} ELSE standard

\* tooltips_to_update.keys()
FieldsToUpdate(model) ==
  {model.columns[i].name :
     i \in {j \in DOMAIN model.columns : model.columns[j].props.tooltip # "None"}}

\* the pairs for a model whose schema does not exist remotely; the set
\* wh_field_names_to_update is iterated in update_order
NewSchemaPairs(model, update_order) ==
  <<CompareOperation(
      CreateEntitySchema(SchemaName,
                         [naming_strategies |-> StandardNamingStrategies(model)],
                         ColumnNames(model.columns)),
      ArchiveEntitySchema(SchemaName))>>
  \o (IF model.props.naming_strategies \ StandardNamingStrategies(model) # {}
      THEN <<CompareOperation(
               UpdateEntitySchema(SchemaName,
                  [naming_strategies |-> model.props.naming_strategies]),
               UpdateEntitySchema(SchemaName,
                  [naming_strategies |-> StandardNamingStrategies(model)]))>>
      ELSE <<>>)
  \o [i \in DOMAIN update_order |->
        CompareOperation(
          UpdateEntitySchemaField(SchemaName, update_order[i],
             [tooltip |-> PropsOf(model.columns, update_order[i]).tooltip]),
          UpdateEntitySchemaField(SchemaName, update_order[i],
             [tooltip |-> "None"]))]

\* the sets compare_entity_schemas iterates for this model and remote schema
MissingColumnsIterated(model, bs) ==
  IF model.defined /\ bs.exists THEN ColumnsMissing(model, bs) ELSE {}

FieldsToUpdateIterated(model, bs) ==
  IF model.defined /\ ~bs.exists THEN FieldsToUpdate(model) ELSE {}

\* compare_entity_schemas for the declared models and the remote schemas:
\* raised when it raises, otherwise the sorted pair list of the model and the
\* sorted "Archive" list
compare_entity_schemas(model, bs, missing_order, update_order) ==
  LET ops == IF ~model.defined THEN <<>>
             ELSE IF bs.exists THEN ExistingSchemaPairs(model, bs, missing_order)
             ELSE NewSchemaPairs(model, update_order)
      archive_schema_ops ==
        IF ~model.defined /\ bs.exists /\ ~bs.archived
        THEN <<CompareOperation(ArchiveEntitySchema(SchemaName),
                                UnarchiveEntitySchema(SchemaName))>>
        ELSE <<>>
  IN IF model.defined /\ bs.exists /\ CreateFieldRaises(model, bs)
     THEN [raised |-> TRUE, model_operations |-> <<>>, archive |-> <<>>]
     ELSE [raised |-> FALSE, model_operations |-> sorted(ops),
           archive |-> sorted(archive_schema_ops)]

\* --------------------------------------------------- operation execute()
\* The outcome of one execute(): ok = FALSE when it raises, dd the remote
\* dropdown afterwards.  update_dropdown_options replaces the remote option
\* list by the submitted one.
Raised(dd) == [ok |-> FALSE, dd |-> dd]

Returned(dd) == [ok |-> TRUE, dd |-> dd]

\* list.remove(x): drops the first element equal to x
ListRemove(s, x) ==
  LET k == ListIndex(s, x) + 1
  IN SubSeq(s, 1, k - 1) \o SubSeq(s, k + 1, Len(s))

\* UnarchiveDropdown.execute
ExecuteUnarchiveDropdown(op, dd) ==
  IF ~dd.exists THEN Raised(dd)
  ELSE IF ~dd.archived THEN Raised(dd)
  ELSE Returned([dd EXCEPT !.archived = FALSE])

\* CreateDropdown.execute
ExecuteCreateDropdown(op, dd) ==
  IF ~dd.exists
  THEN Returned([exists |-> TRUE, archived |-> FALSE,
                 options |-> [i \in DOMAIN op.list |-> DropdownOption(op.list[i], FALSE)]])
  ELSE IF ~dd.archived THEN Raised(dd)
  ELSE IF op.list = Names(dd.options) THEN ExecuteUnarchiveDropdown(op, dd)
  ELSE Raised(dd)

\* ArchiveDropdown.execute
ExecuteArchiveDropdown(op, dd) ==
  IF ~dd.exists THEN Raised(dd)
  ELSE IF dd.archived THEN Raised(dd)
  ELSE Returned([dd EXCEPT !.archived = TRUE])

\* CreateDropdownOption.execute
ExecuteCreateDropdownOption(op, dd) ==
  IF ~dd.exists THEN Raised(dd)
  ELSE
    LET options_for_update == ActiveOptions(dd.options) \o ArchivedOptions(dd.options)
        existing == {i \in DOMAIN options_for_update :
                       options_for_update[i].name = op.sub}
    IN IF existing # {}
       THEN LET existing_option ==
                  options_for_update[CHOOSE i \in existing : \A j \in existing : i <= j]
            IN IF existing_option.archived
               THEN Returned([dd EXCEPT !.options =
                      ListInsert(ListRemove(options_for_update, existing_option),
                                 op.index, DropdownOption(op.sub, FALSE))])
               ELSE Returned(dd)
       ELSE Returned([dd EXCEPT !.options =
              ListInsert(options_for_update, op.index, DropdownOption(op.sub, FALSE))])

\* ArchiveDropdownOption.execute
ExecuteArchiveDropdownOption(op, dd) ==
  IF ~dd.exists THEN Raised(dd)
  ELSE
    LET found == {i \in DOMAIN dd.options : dd.options[i].name = op.sub}
    IN IF found = {} THEN Raised(dd)
       ELSE LET k == CHOOSE i \in found : \A j \in found : i <= j
            IN IF dd.options[k].archived THEN Returned(dd)
               ELSE Returned([dd EXCEPT !.options[k].archived = TRUE])

\* the options as they are, whatever new_order says
ReorderedOptionsKept(new_order, options) == options

\* ReorderDropdownOptions._get_reordered_options: the options named in
\* new_order sorted by their position in it, then the remaining options
ReorderedOptions(new_order, options) ==
  LET named == SelectSeq(options, LAMBDA o : o.name \in Range(new_order))
      position(o) == CHOOSE i \in DOMAIN new_order :
                       new_order[i] = o.name /\ \A j \in DOMAIN new_order :
                                                 new_order[j] = o.name => j <= i
      sorted_options ==
        Flatten([i \in DOMAIN new_order |->
                   SelectSeq(named, LAMBDA o : position(o) = i)])
      remaining_options == SelectSeq(options, LAMBDA o : o.name \notin Range(new_order))
  IN sorted_options \o remaining_options

\* ReorderDropdownOptions.execute
ExecuteReorderDropdownOptions(op, dd) ==
  IF ~dd.exists THEN Raised(dd)
  ELSE Returned([dd EXCEPT !.options = ReorderedOptions(op.list, dd.options)])

\* o.execute(benchling_service) for a dropdown operation
execute(op, dd) ==
  CASE op.kind = "CreateDropdown" -> ExecuteCreateDropdown(op, dd)
    [] op.kind = "ArchiveDropdown" -> ExecuteArchiveDropdown(op, dd)
    [] op.kind = "UnarchiveDropdown" -> ExecuteUnarchiveDropdown(op, dd)
    [] op.kind = "CreateDropdownOption" -> ExecuteCreateDropdownOption(op, dd)
    [] op.kind = "ArchiveDropdownOption" -> ExecuteArchiveDropdownOption(op, dd)
    [] op.kind = "ReorderDropdownOptions" -> ExecuteReorderDropdownOptions(op, dd)

\* --------------------------------------------------- operation validate()
\* BaseOperation.validate passes; only ArchiveDropdown overrides it and
\* raises when get_schemas_with_dropdown finds a declared schema column whose
\* dropdown_link is the dropdown (linked).  TRUE when validate() returns.
validate(op, linked) ==
  IF op.kind = "ArchiveDropdown" THEN ~linked ELSE TRUE

\* ------------------------------------------------------ execute_operations
Call(call, op, ok) == [call |-> call, op |-> op, ok |-> ok]

\* the first loop: validate() in list order, stopping at the first that raises
RECURSIVE ValidateAll(_, _)
ValidateAll(operations, linked) ==
  IF operations = <<>> THEN <<>>
  ELSE IF validate(Head(operations), linked)
       THEN <<Call("validate", Head(operations), TRUE)>>
              \o ValidateAll(Tail(operations), linked)
       ELSE <<Call("validate", Head(operations), FALSE)>>

RECURSIVE ExecuteAll(_, _)

\* a second loop that carries on after an execute() raised
RECURSIVE ExecuteAllContinuing(_, _)
ExecuteAllContinuing(operations, dd) ==
  IF operations = <<>> THEN [success |-> TRUE, dd |-> dd, calls |-> <<>>]
  ELSE LET r == execute(Head(operations), dd)
           rest == ExecuteAllContinuing(Tail(operations), r.dd)
       IN [success |-> r.ok /\ rest.success, dd |-> rest.dd,
           calls |-> <<Call("execute", Head(operations), r.ok)>> \o rest.calls]

\* the second loop: execute() in list order, returning False at the first
\* that raises
ExecuteAll(operations, dd) ==
  IF operations = <<>> THEN [success |-> TRUE, dd |-> dd, calls |-> <<>>]
  ELSE LET r == execute(Head(operations), dd)
       IN IF ~r.ok
          THEN [success |-> FALSE, dd |-> r.dd,
                calls |-> <<Call("execute", Head(operations), FALSE)>>]
          ELSE LET rest == ExecuteAll(Tail(operations), r.dd)
               IN [success |-> rest.success, dd |-> rest.dd,
                   calls |-> <<Call("execute", Head(operations), TRUE)>> \o rest.calls]

\* execute_operations without its first loop
execute_operations_unvalidated(operations, dd, linked) ==
  LET r == ExecuteAll(operations, dd)
  IN [raised |-> FALSE, success |-> r.success, dd |-> r.dd, calls |-> r.calls]

\* execute_operations: raised when a validate() raised (the exception leaves
\* the function), otherwise success is the returned bool
execute_operations(operations, dd, linked) ==
  LET validated == ValidateAll(operations, linked)
  IN IF validated # <<>> /\ ~validated[Len(validated)].ok
     THEN [raised |-> TRUE, success |-> FALSE, dd |-> dd, calls |-> validated]
     ELSE LET r == ExecuteAll(operations, dd)
          IN [raised |-> FALSE, success |-> r.success, dd |-> r.dd,
              calls |-> validated \o r.calls]

\* ----------------------------------------- execute_operations on a tenant
\* the tenant: its dropdown, its entity schema and the fields the name
\* template of the schema uses (tag_schema.nameTemplateFields)
Tenant(dd, bs, template_fields) ==
  [dropdown |-> dd, schema |-> bs, nameTemplateFields |-> template_fields]

\* ArchiveEntitySchemaField.execute: raises when the schema or the field is
\* missing or the field is archived; Benchling rejects the update when the
\* field is used in the name template (comment before archive_field)
ExecuteArchiveEntitySchemaField(op, tenant) ==
  LET bs == tenant.schema
      found == {i \in DOMAIN bs.fields : bs.fields[i].name = op.sub}
  IN IF ~bs.exists \/ found = {} THEN [ok |-> FALSE, tenant |-> tenant]
     ELSE LET k == CHOOSE i \in found : TRUE
          IN IF bs.fields[k].archived \/ op.sub \in tenant.nameTemplateFields
             THEN [ok |-> FALSE, tenant |-> tenant]
             ELSE [ok |-> TRUE,
                   tenant |-> [tenant EXCEPT !.schema.fields[k].archived = TRUE]]

\* o.execute(benchling_service) for a dropdown or entity schema field operation
execute_on_tenant(op, tenant) ==
  IF op.kind = "ArchiveEntitySchemaField"
  THEN ExecuteArchiveEntitySchemaField(op, tenant)
  ELSE LET r == execute(op, tenant.dropdown)
       IN [ok |-> r.ok, tenant |-> [tenant EXCEPT !.dropdown = r.dd]]

\* the second loop of execute_operations, on a tenant
RECURSIVE ExecuteAllOnTenant(_, _)
ExecuteAllOnTenant(operations, tenant) ==
  IF operations = <<>> THEN [success |-> TRUE, tenant |-> tenant, calls |-> <<>>]
  ELSE LET r == execute_on_tenant(Head(operations), tenant)
       IN IF ~r.ok
          THEN [success |-> FALSE, tenant |-> r.tenant,
                calls |-> <<Call("execute", Head(operations), FALSE)>>]
          ELSE LET rest == ExecuteAllOnTenant(Tail(operations), r.tenant)
               IN [success |-> rest.success, tenant |-> rest.tenant,
                   calls |-> <<Call("execute", Head(operations), TRUE)>> \o rest.calls]

\* execute_operations on a tenant
execute_operations_on_tenant(operations, tenant, linked) ==
  LET validated == ValidateAll(operations, linked)
  IN IF validated # <<>> /\ ~validated[Len(validated)].ok
     THEN [raised |-> TRUE, success |-> FALSE, tenant |-> tenant, calls |-> validated]
     ELSE LET r == ExecuteAllOnTenant(operations, tenant)
          IN [raised |-> FALSE, success |-> r.success, tenant |-> r.tenant,
              calls |-> validated \o r.calls]

\* ---------------------------------------------- execute_operations_dry_run
\* a loop that calls validate() before it prints describe()
RECURSIVE ValidateAndDescribeAll(_, _)
ValidateAndDescribeAll(operations, linked) ==
  IF operations = <<>> THEN <<>>
  ELSE IF validate(Head(operations), linked)
       THEN <<Call("validate", Head(operations), TRUE),
              Call("describe", Head(operations), TRUE)>>
              \o ValidateAndDescribeAll(Tail(operations), linked)
       ELSE <<Call("validate", Head(operations), FALSE)>>

\* the loop: describe() is printed, then validate() is called, in list order;
\* a validate() that raises leaves the function
RECURSIVE DescribeAndValidateAll(_, _)
DescribeAndValidateAll(operations, linked) ==
  IF operations = <<>> THEN <<>>
  ELSE IF validate(Head(operations), linked)
       THEN <<Call("describe", Head(operations), TRUE),
              Call("validate", Head(operations), TRUE)>>
              \o DescribeAndValidateAll(Tail(operations), linked)
       ELSE <<Call("describe", Head(operations), TRUE),
              Call("validate", Head(operations), FALSE)>>

\* execute_operations_dry_run: raised when a validate() raised; the function
\* holds no call that writes to the tenant
execute_operations_dry_run(operations, linked) ==
  LET calls == DescribeAndValidateAll(operations, linked)
  IN [raised |-> calls # <<>> /\ ~calls[Len(calls)].ok, calls |-> calls]

\* ------------------------------------------------------ write_new_revision
NoRevision == [upgrade_operations |-> <<>>, downgrade_operations |-> <<>>]

\* the operation lists write_new_revision stores in the new revision
NewRevision(operations) ==
  [upgrade_operations |-> [i \in DOMAIN operations |-> operations[i].op],
   downgrade_operations |->
     Reversed([i \in DOMAIN operations |-> operations[i].reverse_op])]

\* ------------------------------------------------------ validate_revisions
\* revision ids are 1..NumRevisionIds; None is the absent id
NumRevisionIds == 3

RevisionIds == 1..NumRevisionIds

None == 0

\* the upgrade() and downgrade() lists written in the revision file id: one
\* operation each, naming the revision, so that the lists of different
\* revisions differ
UpgradeOperationsOf(id) == <<CreateDropdownOption(DropdownName, id, 0)>>

DowngradeOperationsOf(id) == <<ArchiveDropdownOption(DropdownName, id, 0)>>

\* a Revision as parse_from_file returns it: up_revision_id is not in the file
Revision(id, down_revision_id) ==
  [id |-> id, down_revision_id |-> down_revision_id, up_revision_id |-> None,
   upgrade_operations |-> UpgradeOperationsOf(id),
   downgrade_operations |-> DowngradeOperationsOf(id)]

\* [r for r in all_raw_revisions if r.down_revision_id is None]
BaseRevisions(all_raw_revisions) ==
  SelectSeq(all_raw_revisions, LAMBDA r : r.down_revision_id = None)

\* set([id for id in all_revision_ids if all_revision_ids.count(id) > 1])
DuplicateIds(all_raw_revisions) ==
  {all_raw_revisions[i].id : i \in
     {i \in DOMAIN all_raw_revisions :
        \E j \in DOMAIN all_raw_revisions :
          j # i /\ all_raw_revisions[j].id = all_raw_revisions[i].id}}

\* [r for r in all_raw_revisions if revision_to_validate.id == r.down_revision_id]
UpRevisions(all_raw_revisions, revision_to_validate) ==
  SelectSeq(all_raw_revisions, LAMBDA r : r.down_revision_id = revision_to_validate.id)

\* a walk that leaves up_revision_id as parsed
LinkUpSkipped(map, revision_to_validate, up_revision) == map

\* revision_to_validate.up_revision_id = up_revision.id, on the object the
\* map holds
LinkUp(map, revision_to_validate, up_revision) ==
  [map EXCEPT ![revision_to_validate.id].up_revision_id = up_revision.id]

\* a loop condition that stops one revision short
WalkDoneEarly(map, all_raw_revisions) ==
  ~(Cardinality(DOMAIN map) + 1 < Len(all_raw_revisions))

\* the negated loop condition len(revisions_map) < len(all_raw_revisions)
WalkDone(map, all_raw_revisions) ==
  ~(Cardinality(DOMAIN map) < Len(all_raw_revisions))

RaisedChain == [raised |-> TRUE, revisions_map |-> <<>>]

\* the while loop: from revision_to_validate, step to the one revision that
\* names it as its down revision until the map holds as many revisions as
\* were parsed
RECURSIVE WalkRevisions(_, _, _)
WalkRevisions(all_raw_revisions, revision_to_validate, map) ==
  IF WalkDone(map, all_raw_revisions)
  THEN [raised |-> FALSE, revisions_map |-> map]
  ELSE LET up_revisions == UpRevisions(all_raw_revisions, revision_to_validate)
       IN IF Len(up_revisions) = 0 THEN RaisedChain
          ELSE IF Len(up_revisions) > 1 THEN RaisedChain
          ELSE LET up_revision == up_revisions[1]
                   linked_map == LinkUp(map, revision_to_validate, up_revision)
               IN IF up_revision.id \notin DOMAIN map
                  THEN WalkRevisions(all_raw_revisions, up_revision,
                                     (up_revision.id :> up_revision) @@ linked_map)
                  ELSE RaisedChain

\* a validation that starts the walk at the first parsed revision
validate_revisions_from_first(all_raw_revisions) ==
  IF Len(all_raw_revisions) = 0 THEN [raised |-> FALSE, revisions_map |-> <<>>]
  ELSE IF DuplicateIds(all_raw_revisions) # {} THEN RaisedChain
  ELSE IF Len(BaseRevisions(all_raw_revisions)) = 0 THEN RaisedChain
  ELSE IF Len(BaseRevisions(all_raw_revisions)) > 1 THEN RaisedChain
  ELSE LET first == all_raw_revisions[1]
       IN WalkRevisions(all_raw_revisions, first, (first.id :> first))

\* validate_revisions: raised when it raises, otherwise the map it returns,
\* a function from revision id to Revision
validate_revisions(all_raw_revisions) ==
  IF Len(all_raw_revisions) = 0 THEN [raised |-> FALSE, revisions_map |-> <<>>]
  ELSE IF DuplicateIds(all_raw_revisions) # {} THEN RaisedChain
  ELSE IF Len(BaseRevisions(all_raw_revisions)) = 0 THEN RaisedChain
  ELSE IF Len(BaseRevisions(all_raw_revisions)) > 1 THEN RaisedChain
  ELSE LET base == BaseRevisions(all_raw_revisions)[1]
       IN WalkRevisions(all_raw_revisions, base, (base.id :> base))

\* ------------------------------------------------------ RevisionsTimeline
\* the outcome of a method: raised = TRUE when it raises, value what it
\* returns otherwise
Raise == [raised |-> TRUE, value |-> None]

Return(value) == [raised |-> FALSE, value |-> value]

\* get_revision
get_revision(map, revision_id) ==
  IF revision_id = None THEN Raise
  ELSE IF revision_id \in DOMAIN map THEN Return(map[revision_id])
  ELSE Raise

\* the attribute a walk follows
NextId(revision, direction) ==
  IF direction = "up" THEN revision.up_revision_id ELSE revision.down_revision_id

\* the while loop of get_distance, count steps taken so far
RECURSIVE DistanceWalk(_, _, _, _, _)
DistanceWalk(map, revision, revision_2, direction, count) ==
  IF revision.id = revision_2.id THEN Return(count)
  ELSE LET next == get_revision(map, NextId(revision, direction))
       IN IF next.raised THEN Raise
          ELSE DistanceWalk(map, next.value, revision_2, direction, count + 1)

\* a get_distance that turns round when the walk in the given direction
\* leaves the chain
get_distance_either_way(map, revision_id_1, revision_id_2, direction) ==
  LET revision == get_revision(map, revision_id_1)
      revision_2 == get_revision(map, revision_id_2)
  IN IF revision.raised \/ revision_2.raised THEN Raise
     ELSE LET there == DistanceWalk(map, revision.value, revision_2.value,
                                    direction, 0)
          IN IF ~there.raised THEN there
             ELSE DistanceWalk(map, revision.value, revision_2.value,
                               IF direction = "up" THEN "down" ELSE "up", 0)

\* get_distance
get_distance(map, revision_id_1, revision_id_2, direction) ==
  LET revision == get_revision(map, revision_id_1)
      revision_2 == get_revision(map, revision_id_2)
  IN IF revision.raised \/ revision_2.raised THEN Raise
     ELSE DistanceWalk(map, revision.value, revision_2.value, direction, 0)

\* operations_map[key] = value on a dict kept as its list of items in
\* insertion order
DictSet(items, key, value) ==
  IF \E i \in DOMAIN items : items[i].key = key
  THEN [i \in DOMAIN items |->
          IF items[i].key = key THEN [key |-> key, value |-> value] ELSE items[i]]
  ELSE Append(items, [key |-> key, value |-> value])

\* the while loop of get_upgrade_operations
RECURSIVE UpgradeWalk(_, _, _, _)
UpgradeWalk(map, next_revision, end_revision_id, operations_map) ==
  IF next_revision.id = end_revision_id
  THEN Return(DictSet(operations_map, end_revision_id,
                      next_revision.upgrade_operations))
  ELSE LET next == get_revision(map, next_revision.up_revision_id)
       IN IF next.raised THEN Raise
          ELSE UpgradeWalk(map, next.value, end_revision_id,
                           DictSet(operations_map, next_revision.id,
                                   next_revision.upgrade_operations))

\* a get_upgrade_operations that starts collecting at the start revision
get_upgrade_operations_from_start(map, start_revision_id, end_revision_id) ==
  LET distance == get_distance(map, start_revision_id, end_revision_id, "up")
  IN IF distance.raised THEN Raise
     ELSE IF distance.value = 0 THEN Raise
     ELSE UpgradeWalk(map, get_revision(map, start_revision_id).value,
                      end_revision_id, <<>>)

\* get_upgrade_operations
get_upgrade_operations(map, start_revision_id, end_revision_id) ==
  LET distance == get_distance(map, start_revision_id, end_revision_id, "up")
  IN IF distance.raised THEN Raise
     ELSE IF distance.value = 0 THEN Raise
     ELSE LET revision == get_revision(map, start_revision_id)
              next_revision == get_revision(map, revision.value.up_revision_id)
          IN IF revision.raised \/ next_revision.raised THEN Raise
             ELSE UpgradeWalk(map, next_revision.value, end_revision_id, <<>>)

\* the while loop of get_downgrade_operations
RECURSIVE DowngradeWalk(_, _, _, _)
DowngradeWalk(map, revision, end_revision_id, operations_map) ==
  IF revision.id = end_revision_id THEN Return(operations_map)
  ELSE LET next == get_revision(map, revision.down_revision_id)
       IN IF next.raised THEN Raise
          ELSE DowngradeWalk(map, next.value, end_revision_id,
                             DictSet(operations_map, revision.id,
                                     revision.downgrade_operations))

\* a get_downgrade_operations that starts collecting below the start revision
get_downgrade_operations_below_start(map, start_revision_id, end_revision_id) ==
  LET distance == get_distance(map, start_revision_id, end_revision_id, "down")
  IN IF distance.raised THEN Raise
     ELSE IF distance.value = 0 THEN Raise
     ELSE LET revision == get_revision(map, start_revision_id).value
          IN DowngradeWalk(map, get_revision(map, revision.down_revision_id).value,
                           end_revision_id, <<>>)

\* get_downgrade_operations
get_downgrade_operations(map, start_revision_id, end_revision_id) ==
  LET distance == get_distance(map, start_revision_id, end_revision_id, "down")
  IN IF distance.raised THEN Raise
     ELSE IF distance.value = 0 THEN Raise
     ELSE LET revision == get_revision(map, start_revision_id)
          IN IF revision.raised THEN Raise
             ELSE DowngradeWalk(map, revision.value, end_revision_id, <<>>)

\* a get_latest_revision that returns the base revision
get_latest_revision_base(map) ==
  LET revisions == {id \in DOMAIN map : map[id].down_revision_id = None}
  IN IF Cardinality(revisions) = 0 THEN Raise
     ELSE IF Cardinality(revisions) > 1 THEN Raise
     ELSE Return(map[CHOOSE id \in revisions : TRUE])

\* get_latest_revision: the one revision whose up_revision_id is None
get_latest_revision(map) ==
  LET revisions == {id \in DOMAIN map : map[id].up_revision_id = None}
  IN IF Cardinality(revisions) = 0 THEN Raise
     ELSE IF Cardinality(revisions) > 1 THEN Raise
     ELSE Return(map[CHOOSE id \in revisions : TRUE])

\* get_first_revision: the one revision whose down_revision_id is None
get_first_revision(map) ==
  LET revisions == {id \in DOMAIN map : map[id].down_revision_id = None}
  IN IF Cardinality(revisions) = 0 THEN Raise
     ELSE IF Cardinality(revisions) > 1 THEN Raise
     ELSE Return(map[CHOOSE id \in revisions : TRUE])

\* a write_new_revision that stores the reverse operations in list order
write_new_revision_unreversed(map, new_id, operations) ==
  LET latest == get_latest_revision(map)
  IN IF latest.raised THEN [raised |-> TRUE, value |-> None, revisions_map |-> map]
     ELSE IF Len(operations) = 0
     THEN [raised |-> FALSE, value |-> None, revisions_map |-> map]
     ELSE LET new_revision ==
                [id |-> new_id, down_revision_id |-> latest.value.id,
                 up_revision_id |-> None,
                 upgrade_operations |-> NewRevision(operations).upgrade_operations,
                 downgrade_operations |->
                   [i \in DOMAIN operations |-> operations[i].reverse_op]]
              added == (new_id :> new_revision) @@ map
          IN [raised |-> FALSE, value |-> new_id,
              revisions_map |->
                [added EXCEPT ![new_revision.down_revision_id].up_revision_id = new_id]]

\* write_new_revision with new_id the id Revision.new_id() drew: the Revision
\* is built first, from get_latest_revision, then an empty operation list
\* returns None; value is the written file, named by the new id
write_new_revision(map, new_id, operations) ==
  LET latest == get_latest_revision(map)
  IN IF latest.raised THEN [raised |-> TRUE, value |-> None, revisions_map |-> map]
     ELSE IF Len(operations) = 0
     THEN [raised |-> FALSE, value |-> None, revisions_map |-> map]
     ELSE LET new_revision ==
                [id |-> new_id, down_revision_id |-> latest.value.id,
                 up_revision_id |-> None,
                 upgrade_operations |-> NewRevision(operations).upgrade_operations,
                 downgrade_operations |-> NewRevision(operations).downgrade_operations]
              added == (new_id :> new_revision) @@ map
          IN [raised |-> FALSE, value |-> new_id,
              revisions_map |->
                [added EXCEPT ![new_revision.down_revision_id].up_revision_id = new_id]]

\* init_versions with new_id the id Revision.new_id() drew: the base
\* revision, without operations, is put into the map
init_versions(map, new_id) ==
  (new_id :> [id |-> new_id, down_revision_id |-> None, up_revision_id |-> None,
              upgrade_operations |-> <<>>, downgrade_operations |-> <<>>]) @@ map

\* the while loop of get_revision_index: steps up to the latest revision
RECURSIVE IndexWalk(_, _, _)
IndexWalk(map, revision, count) ==
  IF revision.up_revision_id = None THEN count
  ELSE LET next == get_revision(map, revision.up_revision_id)
       IN IF next.raised THEN count
          ELSE IndexWalk(map, next.value, count + 1)

\* a get_revision_index that counts the steps down to the first revision
get_revision_index_to_first(map, revision_id) ==
  get_distance(map, revision_id, get_first_revision(map).value.id, "down")

\* get_revision_index
get_revision_index(map, revision_id) ==
  LET revision == get_revision(map, revision_id)
  IN IF revision.raised THEN Raise
     ELSE Return(IndexWalk(map, revision.value, 0))

\* the for loop of get_nth_revision: remaining steps still to take
RECURSIVE NthWalk(_, _, _, _)
NthWalk(map, revision, direction, remaining) ==
  IF remaining = 0 THEN Return(revision)
  ELSE LET next == get_revision(map, NextId(revision, direction))
       IN IF next.raised THEN Raise
          ELSE NthWalk(map, next.value, direction, remaining - 1)

\* a get_nth_revision that walks up whatever the sign of steps
get_nth_revision_upward(map, revision_id, steps) ==
  LET revision == get_revision(map, revision_id)
  IN IF revision.raised THEN Raise
     ELSE NthWalk(map, revision.value, "up",
                  IF steps >= 0 THEN steps ELSE 0 - steps)

\* get_nth_revision
get_nth_revision(map, revision_id, steps) ==
  LET revision == get_revision(map, revision_id)
      direction == IF steps >= 0 THEN "up" ELSE "down"
  IN IF revision.raised THEN Raise
     ELSE NthWalk(map, revision.value, direction,
                  IF steps >= 0 THEN steps ELSE 0 - steps)

\* -------------------------------------------- autogenerate_revision_file
NotGenerated(map) ==
  [raised |-> TRUE, compared |-> FALSE, value |-> None, revisions_map |-> map]

\* an autogenerate_revision_file that only asks for a revision of the chain
autogenerate_revision_file_anywhere(map, current_revision_id, compare, compare_ops, new_id) ==
  IF current_revision_id \notin DOMAIN map THEN NotGenerated(map)
  ELSE LET ops == IF compare THEN compare_ops ELSE <<>>
           written == write_new_revision(map, new_id, ops)
       IN [raised |-> written.raised, compared |-> compare,
           value |-> written.value, revisions_map |-> written.revisions_map]

\* autogenerate_revision_file: compare_ops is what
\* get_full_migration_operations returns when it is called (compared), new_id
\* the id Revision.new_id() draws
autogenerate_revision_file(map, current_revision_id, compare, compare_ops, new_id) ==
  IF current_revision_id \notin DOMAIN map THEN NotGenerated(map)
  ELSE LET latest == get_latest_revision(map)
       IN IF latest.raised THEN NotGenerated(map)
          ELSE IF current_revision_id # latest.value.id THEN NotGenerated(map)
          ELSE LET ops == IF compare THEN compare_ops ELSE <<>>
                   written == write_new_revision(map, new_id, ops)
               IN [raised |-> written.raised, compared |-> compare,
                   value |-> written.value,
                   revisions_map |-> written.revisions_map]

\* ------------------------------------------------------------ descriptors
\* A descriptor is a string: either one that spells a revision id, or the
\* word head, or a text over the characters below.
HeadText == [form |-> "head"]

IdText(id) == [form |-> "id", id |-> id]

Text(chars) == [form |-> "text", chars |-> chars]

Digits == {"0", "1", "2"}

\* str.startswith for a one-character prefix
startswith(descriptor, prefix) ==
  /\ descriptor.form = "text"
  /\ descriptor.chars # <<>>
  /\ descriptor.chars[1] = prefix

DigitValue(c) == CASE c = "0" -> 0 [] c = "1" -> 1 [] c = "2" -> 2

RECURSIVE DecimalValue(_)
DecimalValue(digits) ==
  IF digits = <<>> THEN 0
  ELSE 10 * DecimalValue(SubSeq(digits, 1, Len(digits) - 1))
         + DigitValue(digits[Len(digits)])

\* int(chars): an optional sign, then one or more digits; anything else
\* raises ValueError
int(chars) ==
  LET signed == chars # <<>> /\ chars[1] \in {"+", "-"}
      digits == IF signed THEN Tail(chars) ELSE chars
  IN IF digits = <<>> \/ \E i \in DOMAIN digits : digits[i] \notin Digits
     THEN Raise
     ELSE IF signed /\ chars[1] = "-" THEN Return(0 - DecimalValue(digits))
     ELSE Return(DecimalValue(digits))

\* descriptor in revisions_map.keys()
IsRevisionId(map, descriptor) ==
  descriptor.form = "id" /\ descriptor.id \in DOMAIN map

\* ------------------------------------------------ upgrade_benchling_tenant
\* the outcome of the part before the loop over operations_dict
Resolved(revision_id, operations_dict) ==
  [raised |-> operations_dict.raised, revision_id |-> revision_id,
   operations_dict |-> operations_dict.value]

NotResolved == [raised |-> TRUE, revision_id |-> None, operations_dict |-> None]

\* upgrade_benchling_tenant up to the loop
ResolveUpgrade(map, current_revision_id, upgrade_descriptor) ==
  IF current_revision_id \notin DOMAIN map THEN NotResolved
  ELSE IF upgrade_descriptor = HeadText
  THEN LET latest == get_latest_revision(map)
       IN IF latest.raised THEN NotResolved
          ELSE Resolved(latest.value.id,
                        get_upgrade_operations(map, current_revision_id,
                                               latest.value.id))
  ELSE IF startswith(upgrade_descriptor, "+")
  THEN LET steps == int(Tail(upgrade_descriptor.chars))
       IN IF steps.raised THEN NotResolved
          ELSE IF steps.value <= 0 THEN NotResolved
          ELSE IF get_revision_index(map, current_revision_id).value
                    - steps.value < 0
          THEN NotResolved
          ELSE LET nth == get_nth_revision(map, current_revision_id, steps.value)
               IN IF nth.raised THEN NotResolved
                  ELSE Resolved(nth.value.id,
                                get_upgrade_operations(map, current_revision_id,
                                                       nth.value.id))
  ELSE IF IsRevisionId(map, upgrade_descriptor)
  THEN Resolved(upgrade_descriptor.id,
                get_upgrade_operations(map, current_revision_id,
                                       upgrade_descriptor.id))
  ELSE NotResolved

\* ---------------------------------------------- downgrade_benchling_tenant
\* downgrade_benchling_tenant up to the loop
ResolveDowngrade(map, current_revision_id, downgrade_str) ==
  IF current_revision_id \notin DOMAIN map THEN NotResolved
  ELSE IF startswith(downgrade_str, "-")
  THEN LET steps == int(Tail(downgrade_str.chars))
       IN IF steps.raised THEN NotResolved
          ELSE IF steps.value <= 0 THEN NotResolved
          ELSE IF get_revision_index(map, current_revision_id).value
                    + steps.value >= Cardinality(DOMAIN map)
          THEN NotResolved
          ELSE LET nth == get_nth_revision(map, current_revision_id,
                                           steps.value * (0 - 1))
               IN IF nth.raised THEN NotResolved
                  ELSE Resolved(nth.value.id,
                                get_downgrade_operations(map, current_revision_id,
                                                         nth.value.id))
  ELSE IF IsRevisionId(map, downgrade_str)
  THEN Resolved(downgrade_str.id,
                get_downgrade_operations(map, current_revision_id,
                                         downgrade_str.id))
  ELSE NotResolved

\* =========================================================== the state
VARIABLES
  allowed_values,   \* __allowed_values__ of the declared dropdown
  linked,           \* a declared schema column links the dropdown
  benchling,        \* the remote dropdown
  revision,         \* the revision autogenerate_revision_file wrote
  plan,             \* operations_dict values still to run, in order
  direction,        \* "none", "up" or "down": the migration being run
  pc,               \* position of the command line session
  batches,          \* the execute_operations invocations of the current run
  before,           \* the remote dropdown when the current run started
  snapshot,         \* the remote dropdown compare_dropdowns fetched
  model,            \* the declared entity schema model
  benchling_schema, \* the remote entity schema
  name_template_fields, \* the fields its name template uses
  comparison,       \* what compare_entity_schemas and the scheduler returned
  operations,       \* a list of CompareOperations handed to sorted()
  scheduled,        \* the list sorted() returned
  all_raw_revisions,\* the revisions parsed from the versions directory
  revisions_map,    \* RevisionsTimeline.revisions_map
  request,          \* the method last called on the timeline, with its arguments
  response,         \* whether that call raised, and what it returned
  undeclared,       \* the remote dropdown that no class declares
  dropdown_names,   \* the dropdown_names argument of compare_dropdowns
  dropdown_diff,    \* what compare_dropdowns returned
  props_old,        \* the properties of a field before it is updated
  props_new,        \* the properties the field is to have
  props_now,        \* the properties of the field now
  props_diff        \* the dictionary the last update was made with

dropdownVars == <<allowed_values, linked, benchling, revision, plan, direction,
                  batches, before, snapshot>>

schemaVars == <<model, benchling_schema, name_template_fields, comparison>>

scheduleVars == <<operations, scheduled>>

chainVars == <<all_raw_revisions, revisions_map, request, response>>

reconcileVars == <<undeclared, dropdown_names, dropdown_diff>>

mergeVars == <<props_old, props_new, props_now, props_diff>>

vars == <<pc, dropdownVars, schemaVars, scheduleVars, chainVars, reconcileVars,
          mergeVars>>

NoComparison ==
  [raised |-> FALSE, model_operations |-> <<>>, archive |-> <<>>,
   all_operations |-> <<>>]

\* no dropdown is declared and none exists remotely
NoDropdowns ==
  /\ allowed_values = <<>>
  /\ linked = FALSE
  /\ benchling = NoDropdown
  /\ revision = NoRevision
  /\ plan = <<>>
  /\ direction = "none"
  /\ batches = <<>>
  /\ before = NoDropdown
  /\ snapshot = NoDropdown

\* no entity schema is declared and none exists remotely
NoSchemas ==
  /\ model = NoModel
  /\ benchling_schema = NoSchema
  /\ name_template_fields = {}
  /\ comparison = NoComparison

\* no list is being sorted
NoSchedule ==
  /\ operations = <<>>
  /\ scheduled = <<>>

\* no versions directory has been read
NoRequest == [method |-> "none"]

NoChain ==
  /\ all_raw_revisions = <<>>
  /\ revisions_map = <<>>
  /\ request = NoRequest
  /\ response = Return(None)

\* no dropdown exists remotely beside the declared one, and compare_dropdowns
\* has not been called
NoReconcile ==
  /\ undeclared = NoDropdown
  /\ dropdown_names = NoNames
  /\ dropdown_diff = NoDropdownDiff

\* no field is being updated
NoMerge ==
  /\ props_old = NoBag
  /\ props_new = NoBag
  /\ props_now = NoBag
  /\ props_diff = <<>>

\* ------------------------------------------------- reconcile then migrate
InitDiff ==
  /\ allowed_values \in UniqueLists(OptionNames)
  /\ linked \in BOOLEAN
  /\ benchling \in RemoteDropdowns
  /\ revision = NoRevision
  /\ plan = <<>>
  /\ direction = "none"
  /\ pc = "start"
  /\ batches = <<>>
  /\ before = benchling
  /\ snapshot = NoDropdown
  /\ NoSchemas
  /\ NoReconcile
  /\ NoMerge
  /\ NoSchedule
  /\ NoChain

\* autogenerate_revision_file: compare, sort, write the revision (none when
\* there is nothing to do)
AutogenerateRevision ==
  /\ pc = "start"
  /\ \E archive_order \in
        SetIterationOrders(IF benchling.exists
                           THEN OptionsToArchive(allowed_values, benchling)
                           ELSE {}) :
       LET compare_ops ==
             get_full_migration_operations(
               compare_dropdowns(allowed_values, benchling, archive_order), <<>>)
       IN IF Len(compare_ops) = 0
          THEN /\ pc' = "in_sync"
               /\ revision' = revision
          ELSE /\ pc' = "generated"
               /\ revision' = NewRevision(compare_ops)
  /\ snapshot' = benchling
  /\ UNCHANGED <<allowed_values, linked, benchling, plan, direction, batches, before>>
  /\ UNCHANGED <<schemaVars, scheduleVars, reconcileVars, mergeVars, chainVars>>

\* upgrade_benchling_tenant up to the generated revision: the plan is that
\* revision's upgrade operations
UpgradeTenant ==
  /\ pc = "generated"
  /\ plan' = <<revision.upgrade_operations>>
  /\ direction' = "up"
  /\ pc' = "running"
  /\ batches' = <<>>
  /\ before' = benchling
  /\ UNCHANGED <<allowed_values, linked, benchling, revision, snapshot>>
  /\ UNCHANGED <<schemaVars, scheduleVars, reconcileVars, mergeVars, chainVars>>

\* downgrade_benchling_tenant from the generated revision to the one below:
\* the plan is that revision's downgrade operations
DowngradeTenant ==
  /\ pc = "done"
  /\ direction = "up"
  /\ plan' = <<revision.downgrade_operations>>
  /\ direction' = "down"
  /\ pc' = "running"
  /\ batches' = <<>>
  /\ before' = benchling
  /\ UNCHANGED <<allowed_values, linked, benchling, revision, snapshot>>
  /\ UNCHANGED <<schemaVars, scheduleVars, reconcileVars, mergeVars, chainVars>>

\* a loop over operations_dict that goes on to the next revision after a
\* validate() raised
ExecuteRevisionContinuing ==
  /\ pc = "running"
  /\ plan # <<>>
  /\ LET r == execute_operations(Head(plan), benchling, linked)
     IN /\ benchling' = r.dd
        /\ batches' = Append(batches,
                              [operations |-> Head(plan), before |-> benchling,
                               raised |-> r.raised, success |-> r.success,
                               after |-> r.dd, calls |-> r.calls])
        /\ IF ~r.raised /\ ~r.success THEN pc' = "failed" /\ plan' = plan
           ELSE /\ plan' = Tail(plan)
                /\ pc' = IF Tail(plan) = <<>> THEN "done" ELSE "running"
  /\ UNCHANGED <<allowed_values, linked, revision, direction, before, snapshot>>
  /\ UNCHANGED <<schemaVars, scheduleVars, reconcileVars, mergeVars, chainVars>>

\* one turn of the loop over operations_dict in upgrade_benchling_tenant /
\* downgrade_benchling_tenant: execute_operations on the next revision
ExecuteRevision ==
  /\ pc = "running"
  /\ plan # <<>>
  /\ LET r == execute_operations(Head(plan), benchling, linked)
     IN /\ benchling' = r.dd
        /\ batches' = Append(batches,
                              [operations |-> Head(plan), before |-> benchling,
                               raised |-> r.raised, success |-> r.success,
                               after |-> r.dd, calls |-> r.calls])
        /\ IF r.raised THEN pc' = "raised" /\ plan' = plan
           ELSE IF ~r.success THEN pc' = "failed" /\ plan' = plan
           ELSE /\ plan' = Tail(plan)
                /\ pc' = IF Tail(plan) = <<>> THEN "done" ELSE "running"
  /\ UNCHANGED <<allowed_values, linked, revision, direction, before, snapshot>>
  /\ UNCHANGED <<schemaVars, scheduleVars, reconcileVars, mergeVars, chainVars>>

NextDiff ==
  \/ AutogenerateRevision
  \/ UpgradeTenant
  \/ ExecuteRevision
  \/ DowngradeTenant

SpecDiff == InitDiff /\ [][NextDiff]_vars

\* ------------------------------------------------ reconcile entity schemas
InitSchema ==
  /\ model \in Models
  /\ benchling_schema \in RemoteSchemas
  /\ name_template_fields = {}
  /\ comparison = NoComparison
  /\ pc = "start"
  /\ NoDropdowns
  /\ NoSchedule
  /\ NoReconcile
  /\ NoMerge
  /\ NoChain

\* get_full_migration_operations with no dropdown declared or remote:
\* compare_entity_schemas, then the flattened lists sorted
CompareSchemas ==
  /\ pc = "start"
  /\ \E missing_order \in SetIterationOrders(MissingColumnsIterated(model, benchling_schema)),
        update_order \in SetIterationOrders(FieldsToUpdateIterated(model, benchling_schema)) :
       LET r == compare_entity_schemas(model, benchling_schema,
                                       missing_order, update_order)
       IN IF r.raised
          THEN /\ pc' = "raised"
               /\ comparison' = [NoComparison EXCEPT !.raised = TRUE]
          ELSE /\ pc' = "compared"
               /\ comparison' =
                    [raised |-> FALSE,
                     model_operations |-> r.model_operations,
                     archive |-> r.archive,
                     all_operations |->
                       get_full_migration_operations(
                         <<>>, r.model_operations \o r.archive)]
  /\ UNCHANGED <<model, benchling_schema, name_template_fields>>
  /\ UNCHANGED <<dropdownVars, scheduleVars, reconcileVars, mergeVars, chainVars>>

NextSchema == CompareSchemas

SpecSchema == InitSchema /\ [][NextSchema]_vars

\* ------------------------------------------------------- the scheduler
\* longest list handed to sorted()
MaxOperations == 3

\* every operation class that defines an order
OperationKinds ==
  {"CreateDropdown", "UpdateDropdownName", "UnarchiveDropdown",
   "CreateDropdownOption", "UpdateDropdownOption", "ArchiveDropdownOption",
   "ReorderDropdownOptions", "CreateEntitySchema", "UpdateEntitySchema",
   "UpdateEntitySchemaName", "UnarchiveEntitySchema", "CreateEntitySchemaField",
   "UnarchiveEntitySchemaField", "UpdateEntitySchemaField",
   "UpdateEntitySchemaFieldName", "ArchiveEntitySchemaField",
   "ReorderEntitySchemaFields", "ArchiveEntitySchema", "ArchiveDropdown"}

\* the lists of mixed kinds: the operation at position i is of any kind and
\* acts on sub-element i, so that equal kinds stay distinguishable
OperationLists ==
  UNION {{[i \in 1..n |->
             CompareOperation(Operation(kinds[i], "R", i, 0, <<>>, NoProps),
                              Operation(kinds[i], "R", i, 0, <<>>, NoProps))] :
            kinds \in [1..n -> OperationKinds]} : n \in 0..MaxOperations}

InitSchedule ==
  /\ operations \in OperationLists
  /\ scheduled = <<>>
  /\ pc = "start"
  /\ NoDropdowns
  /\ NoSchemas
  /\ NoReconcile
  /\ NoMerge
  /\ NoChain

\* return sorted(all_operations)
Schedule ==
  /\ pc = "start"
  /\ scheduled' = sorted(operations)
  /\ pc' = "scheduled"
  /\ UNCHANGED <<operations, dropdownVars, schemaVars, chainVars, reconcileVars, mergeVars>>

NextSchedule == Schedule

SpecSchedule == InitSchedule /\ [][NextSchedule]_vars

\* --------------------------------------------------- run a migration plan
\* longest operation list of a revision file
MaxBatchLen == 3

\* most revisions a run spans
MaxRevisions == 2

\* the options the revision files of a run act on
RunOptions == {1}

\* the operations the revision files of a run are written from
RunOperations ==
  UNION {{ArchiveDropdown(DropdownName), UnarchiveDropdown(DropdownName),
   CreateDropdownOption(DropdownName, option, 0)} : option \in RunOptions}

\* the upgrade() / downgrade() lists of revision files
RevisionOperations ==
  UNION {[1..n -> RunOperations] : n \in 0..MaxBatchLen}

\* operations_dict.values(): one operation list per revision, in run order
OperationsDicts ==
  UNION {[1..n -> RevisionOperations] : n \in 1..MaxRevisions}

\* the remote dropdowns holding no other options
RunDropdowns ==
  {dd \in RemoteDropdowns : Range(Names(dd.options)) \subseteq RunOptions}

\* upgrade_benchling_tenant / downgrade_benchling_tenant has resolved its
\* descriptor and holds operations_dict; the loop over it is about to start
InitRun ==
  /\ plan \in OperationsDicts
  /\ linked \in BOOLEAN
  /\ benchling \in RunDropdowns
  /\ before = benchling
  /\ direction \in {"up", "down"}
  /\ pc = "running"
  /\ batches = <<>>
  /\ allowed_values = <<>>
  /\ revision = NoRevision
  /\ snapshot = NoDropdown
  /\ NoSchemas
  /\ NoReconcile
  /\ NoMerge
  /\ NoSchedule
  /\ NoChain

NextRun == ExecuteRevision

SpecRun == InitRun /\ [][NextRun]_vars

\* ------------------------------------------------ load the revision files
\* most revision files in the versions directory
MaxRevisionFiles == 3

\* the parsed revision files, in directory iteration order
RawRevisionLists ==
  UNION {[1..n -> {Revision(id, down) : id \in RevisionIds,
                                        down \in RevisionIds \cup {None}}] :
           n \in 0..MaxRevisionFiles}

InitChain ==
  /\ all_raw_revisions \in RawRevisionLists
  /\ revisions_map = <<>>
  /\ request = NoRequest
  /\ response = Return(None)
  /\ pc = "start"
  /\ NoDropdowns
  /\ NoSchemas
  /\ NoReconcile
  /\ NoMerge
  /\ NoSchedule

\* RevisionsTimeline.__init__: parse every file, then validate_revisions
LoadRevisions ==
  /\ pc = "start"
  /\ LET r == validate_revisions(all_raw_revisions)
     IN /\ revisions_map' = r.revisions_map
        /\ pc' = IF r.raised THEN "raised" ELSE "loaded"
  /\ UNCHANGED <<all_raw_revisions, request, response>>
  /\ UNCHANGED <<dropdownVars, schemaVars, scheduleVars, reconcileVars, mergeVars>>

NextChain == LoadRevisions

SpecChain == InitChain /\ [][NextChain]_vars

\* -------------------------------------------------- navigate the timeline
\* the ids a caller may pass: those of the revision files, one no file has,
\* and None
CallerIds == 0..(NumRevisionIds + 1)

\* the timeline has been constructed from the versions directory
InitTimeline ==
  /\ all_raw_revisions \in RawRevisionLists
  /\ ~validate_revisions(all_raw_revisions).raised
  /\ revisions_map = validate_revisions(all_raw_revisions).revisions_map
  /\ request = NoRequest
  /\ response = Return(None)
  /\ pc = "loaded"
  /\ NoDropdowns
  /\ NoSchemas
  /\ NoReconcile
  /\ NoMerge
  /\ NoSchedule

\* a call of get_upgrade_operations
GetUpgradeOperations ==
  /\ pc = "loaded"
  /\ \E start_revision_id, end_revision_id \in CallerIds :
       /\ request' = [method |-> "get_upgrade_operations",
                      start_revision_id |-> start_revision_id,
                      end_revision_id |-> end_revision_id]
       /\ response' = get_upgrade_operations(revisions_map, start_revision_id,
                                             end_revision_id)
  /\ pc' = "called"
  /\ UNCHANGED <<all_raw_revisions, revisions_map>>
  /\ UNCHANGED <<dropdownVars, schemaVars, scheduleVars, reconcileVars, mergeVars>>

\* a call of get_downgrade_operations
GetDowngradeOperations ==
  /\ pc = "loaded"
  /\ \E start_revision_id, end_revision_id \in CallerIds :
       /\ request' = [method |-> "get_downgrade_operations",
                      start_revision_id |-> start_revision_id,
                      end_revision_id |-> end_revision_id]
       /\ response' = get_downgrade_operations(revisions_map, start_revision_id,
                                               end_revision_id)
  /\ pc' = "called"
  /\ UNCHANGED <<all_raw_revisions, revisions_map>>
  /\ UNCHANGED <<dropdownVars, schemaVars, scheduleVars, reconcileVars, mergeVars>>

\* longest list of pairs handed to write_new_revision
MaxPairs == 2

\* the pairs a comparison hands to write_new_revision
ComparePairs ==
  {CompareOperation(CreateDropdownOption(DropdownName, 1, 0),
                    ArchiveDropdownOption(DropdownName, 1, 0)),
   CompareOperation(ArchiveDropdown(DropdownName), UnarchiveDropdown(DropdownName))}

PairLists == UNION {[1..n -> ComparePairs] : n \in 0..MaxPairs}

\* the ids Revision.new_id() can draw: those no revision of the map has
NewIds(map) == (1..(NumRevisionIds + 1)) \ DOMAIN map

\* a call of write_new_revision
WriteNewRevision ==
  /\ pc = "loaded"
  /\ \E pairs \in PairLists, new_id \in NewIds(revisions_map) :
       LET r == write_new_revision(revisions_map, new_id, pairs)
       IN /\ request' = [method |-> "write_new_revision", operations |-> pairs,
                         revisions_map |-> revisions_map]
          /\ response' = [raised |-> r.raised, value |-> r.value]
          /\ revisions_map' = r.revisions_map
  /\ pc' = "called"
  /\ UNCHANGED all_raw_revisions
  /\ UNCHANGED <<dropdownVars, schemaVars, scheduleVars, reconcileVars, mergeVars>>

NextTimeline ==
  \/ GetUpgradeOperations
  \/ GetDowngradeOperations
  \/ WriteNewRevision

SpecTimeline == InitTimeline /\ [][NextTimeline]_vars

\* ------------------------------------------- migrate along the timeline
\* longest text after the sign of a descriptor
MaxDescriptorLen == 2

DescriptorTails ==
  UNION {[1..n -> Digits \cup {"+", "-", "x"}] : n \in 0..MaxDescriptorLen}

\* the descriptors given on the command line
Descriptors ==
  {HeadText} \cup {IdText(id) : id \in 1..(NumRevisionIds + 1)}
    \cup {Text(<<>>), Text(<<"x">>)}
    \cup {Text(<<sign>> \o tail) : sign \in {"+", "-"}, tail \in DescriptorTails}

\* the remote dropdown: absent, or active with an active option for every
\* revision id, so that the operations of every revision file can execute
TimelineDropdowns ==
  {NoDropdown,
   [exists |-> TRUE, archived |-> FALSE,
    options |-> [i \in 1..(NumRevisionIds + 1) |-> DropdownOption(i, FALSE)]]}

InitMigrate ==
  /\ all_raw_revisions \in RawRevisionLists
  /\ ~validate_revisions(all_raw_revisions).raised
  /\ revisions_map = validate_revisions(all_raw_revisions).revisions_map
  /\ request = NoRequest
  /\ response = Return(None)
  /\ pc = "loaded"
  /\ benchling \in TimelineDropdowns
  /\ before = benchling
  /\ allowed_values = <<>>
  /\ linked = FALSE
  /\ revision = NoRevision
  /\ plan = <<>>
  /\ direction = "none"
  /\ batches = <<>>
  /\ snapshot = NoDropdown
  /\ NoSchemas
  /\ NoReconcile
  /\ NoMerge
  /\ NoSchedule

\* operations_dict.values(), in insertion order
DictValues(items) == [i \in DOMAIN items |-> items[i].value]

\* upgrade_benchling_tenant up to its loop; response.value is the
\* revision_id it returns when the loop ends
UpgradeBenchlingTenant ==
  /\ pc = "loaded"
  /\ \E current_revision_id \in 1..(NumRevisionIds + 1),
        upgrade_descriptor \in Descriptors :
       LET r == ResolveUpgrade(revisions_map, current_revision_id,
                               upgrade_descriptor)
       IN /\ request' = [method |-> "upgrade_benchling_tenant",
                         current_revision_id |-> current_revision_id,
                         descriptor |-> upgrade_descriptor]
          /\ response' = [raised |-> r.raised, value |-> r.revision_id]
          /\ IF r.raised
             THEN pc' = "raised" /\ plan' = plan
             ELSE pc' = "running" /\ plan' = DictValues(r.operations_dict)
  /\ direction' = "up"
  /\ batches' = <<>>
  /\ before' = benchling
  /\ UNCHANGED <<allowed_values, linked, benchling, revision, snapshot>>
  /\ UNCHANGED <<all_raw_revisions, revisions_map, schemaVars, scheduleVars, reconcileVars, mergeVars>>

\* downgrade_benchling_tenant up to its loop
DowngradeBenchlingTenant ==
  /\ pc = "loaded"
  /\ \E current_revision_id \in 1..(NumRevisionIds + 1),
        downgrade_str \in Descriptors :
       LET r == ResolveDowngrade(revisions_map, current_revision_id,
                                 downgrade_str)
       IN /\ request' = [method |-> "downgrade_benchling_tenant",
                         current_revision_id |-> current_revision_id,
                         descriptor |-> downgrade_str]
          /\ response' = [raised |-> r.raised, value |-> r.revision_id]
          /\ IF r.raised
             THEN pc' = "raised" /\ plan' = plan
             ELSE pc' = "running" /\ plan' = DictValues(r.operations_dict)
  /\ direction' = "down"
  /\ batches' = <<>>
  /\ before' = benchling
  /\ UNCHANGED <<allowed_values, linked, benchling, revision, snapshot>>
  /\ UNCHANGED <<all_raw_revisions, revisions_map, schemaVars, scheduleVars, reconcileVars, mergeVars>>

NextMigrate ==
  \/ UpgradeBenchlingTenant
  \/ DowngradeBenchlingTenant
  \/ ExecuteRevision

SpecMigrate == InitMigrate /\ [][NextMigrate]_vars

\* ------------------------------------------- the full comparison
\* the remote dropdown that no class declares: absent, active or archived
UndeclaredDropdowns ==
  {NoDropdown} \cup
  {[exists |-> TRUE, archived |-> a, options |-> <<>>] : a \in BOOLEAN}

\* a remote dropdown without options, active
EmptyDropdown == [exists |-> TRUE, archived |-> FALSE, options |-> <<>>]

\* either the dropdowns vary and no entity schema is declared or remote, or
\* the entity schemas vary beside a declared dropdown without options that
\* exists remotely
InitReconcile ==
  /\ \/ /\ allowed_values \in UniqueLists(OptionNames)
        /\ benchling \in RemoteDropdowns
        /\ undeclared \in UndeclaredDropdowns
        /\ dropdown_names \in DropdownNames
        /\ model = NoModel
        /\ benchling_schema = NoSchema
     \/ /\ allowed_values = <<>>
        /\ benchling = EmptyDropdown
        /\ undeclared \in UndeclaredDropdowns
        /\ dropdown_names = NoNames
        /\ model \in Models
        /\ benchling_schema \in RemoteSchemas
  /\ dropdown_diff = NoDropdownDiff
  /\ comparison = NoComparison
  /\ name_template_fields = {}
  /\ linked = FALSE
  /\ revision = NoRevision
  /\ plan = <<>>
  /\ direction = "none"
  /\ pc = "start"
  /\ batches = <<>>
  /\ before = NoDropdown
  /\ snapshot = NoDropdown
  /\ NoSchedule
  /\ NoChain
  /\ NoMerge

\* get_full_migration_operations(benchling_service, dropdown_names, None):
\* compare_dropdowns, then compare_entity_schemas, then the flattened lists
\* sorted
Reconcile ==
  /\ pc = "start"
  /\ \E archive_order \in
        SetIterationOrders(IF benchling.exists
                           THEN OptionsToArchive(allowed_values, benchling)
                           ELSE {}),
        dropdown_order \in
          SetIterationOrders(DropdownsToArchive(benchling, undeclared,
                                                dropdown_names)),
        missing_order \in
          SetIterationOrders(MissingColumnsIterated(model, benchling_schema)),
        update_order \in
          SetIterationOrders(FieldsToUpdateIterated(model, benchling_schema)) :
       LET d == compare_dropdowns_named(allowed_values, benchling, undeclared,
                                        dropdown_names, archive_order,
                                        dropdown_order)
           r == compare_entity_schemas(model, benchling_schema,
                                       missing_order, update_order)
       IN IF d.raised
          THEN /\ pc' = "raised"
               /\ dropdown_diff' = d
               /\ comparison' = comparison
          ELSE IF r.raised
          THEN /\ pc' = "raised"
               /\ dropdown_diff' = d
               /\ comparison' = [NoComparison EXCEPT !.raised = TRUE]
          ELSE /\ pc' = "compared"
               /\ dropdown_diff' = d
               /\ comparison' =
                    [raised |-> FALSE,
                     model_operations |-> r.model_operations,
                     archive |-> r.archive,
                     all_operations |->
                       get_full_migration_operations(
                         d.model_operations \o d.archive,
                         r.model_operations \o r.archive)]
  /\ UNCHANGED <<allowed_values, linked, benchling, revision, plan, direction,
                 batches, before, snapshot>>
  /\ UNCHANGED <<model, benchling_schema, name_template_fields, undeclared,
                 dropdown_names>>
  /\ UNCHANGED <<scheduleVars, chainVars, mergeVars>>

NextReconcile == Reconcile

SpecReconcile == InitReconcile /\ [][NextReconcile]_vars

\* ------------------------------------------- updating a field and back
InitMerge ==
  /\ props_old \in PropertyBags
  /\ props_new \in PropertyBags
  /\ props_now = props_old
  /\ props_diff = <<>>
  /\ pc = "start"
  /\ NoDropdowns
  /\ NoSchemas
  /\ NoSchedule
  /\ NoChain
  /\ NoReconcile

\* UpdateEntitySchemaField.execute of the forward operation, whose
\* update_props is BaseFieldProperties(**benchling_props.merge(model_props))
UpdateField ==
  /\ pc = "start"
  /\ LET update_props == BaseFieldProperties(merge(props_old, props_new))
     IN /\ props_diff' = model_dump_exclude_unset(update_props)
        /\ props_now' = update_from_props(props_now, props_diff')
  /\ pc' = "updated"
  /\ UNCHANGED <<props_old, props_new>>
  /\ UNCHANGED <<dropdownVars, schemaVars, scheduleVars, chainVars, reconcileVars>>

\* UpdateEntitySchemaField.execute of the reverse operation, whose
\* update_props is BaseFieldProperties(**model_props.merge(benchling_props))
RevertField ==
  /\ pc = "updated"
  /\ LET update_props == BaseFieldProperties(merge(props_new, props_old))
     IN /\ props_diff' = model_dump_exclude_unset(update_props)
        /\ props_now' = update_from_props(props_now, props_diff')
  /\ pc' = "reverted"
  /\ UNCHANGED <<props_old, props_new>>
  /\ UNCHANGED <<dropdownVars, schemaVars, scheduleVars, chainVars, reconcileVars>>

NextMerge == UpdateField \/ RevertField

SpecMerge == InitMerge /\ [][NextMerge]_vars

\* ------------------------------------------------------ dry run of a batch
\* a list of operations is about to be handed to execute_operations_dry_run
InitDryRun ==
  /\ plan \in [1..1 -> RevisionOperations]
  /\ linked \in BOOLEAN
  /\ benchling \in RunDropdowns
  /\ before = benchling
  /\ direction = "none"
  /\ pc = "start"
  /\ batches = <<>>
  /\ allowed_values = <<>>
  /\ revision = NoRevision
  /\ snapshot = NoDropdown
  /\ NoSchemas
  /\ NoReconcile
  /\ NoMerge
  /\ NoSchedule
  /\ NoChain

\* a call of execute_operations_dry_run
DryRun ==
  /\ pc = "start"
  /\ LET r == execute_operations_dry_run(Head(plan), linked)
     IN /\ batches' = Append(batches,
                              [operations |-> Head(plan), before |-> benchling,
                               raised |-> r.raised, after |-> benchling,
                               calls |-> r.calls])
        /\ pc' = IF r.raised THEN "dry_run_raised" ELSE "dry_run_returned"
  /\ UNCHANGED <<allowed_values, linked, benchling, revision, plan, direction,
                 before, snapshot>>
  /\ UNCHANGED <<schemaVars, scheduleVars, reconcileVars, mergeVars, chainVars>>

NextDryRun == DryRun

SpecDryRun == InitDryRun /\ [][NextDryRun]_vars

\* ------------------------------------------ a batch that archives fields
\* the operations a batch that archives is written from
ArchiveBatchOperations ==
  {ArchiveDropdown(DropdownName), CreateDropdownOption(DropdownName, 1, 0)}
    \cup {ArchiveEntitySchemaField(SchemaName, f, -1) : f \in FieldNames}

ArchiveBatches == UNION {[1..n -> ArchiveBatchOperations] : n \in 1..MaxBatchLen}

\* the remote schemas whose fields only differ in name, order and _archived
PlainSchemas ==
  {bs \in RemoteSchemas :
     /\ bs.exists => ~bs.archived /\ bs.props.naming_strategies = {"NEW_IDS"}
     /\ \A i \in DOMAIN bs.fields : bs.fields[i].props.tooltip = "None"}

\* a batch is about to be handed to execute_operations; the name template of
\* the remote schema uses some of its fields
InitArchive ==
  /\ plan \in [1..1 -> ArchiveBatches]
  /\ linked \in BOOLEAN
  /\ benchling \in RunDropdowns
  /\ benchling_schema \in PlainSchemas
  /\ name_template_fields \in SUBSET {benchling_schema.fields[i].name :
                                        i \in DOMAIN benchling_schema.fields}
  /\ before = benchling
  /\ direction = "none"
  /\ pc = "start"
  /\ batches = <<>>
  /\ allowed_values = <<>>
  /\ revision = NoRevision
  /\ snapshot = NoDropdown
  /\ model = NoModel
  /\ comparison = NoComparison
  /\ NoReconcile
  /\ NoMerge
  /\ NoSchedule
  /\ NoChain

\* a call of execute_operations
ExecuteBatch ==
  /\ pc = "start"
  /\ LET tenant == Tenant(benchling, benchling_schema, name_template_fields)
         r == execute_operations_on_tenant(Head(plan), tenant, linked)
     IN /\ benchling' = r.tenant.dropdown
        /\ benchling_schema' = r.tenant.schema
        /\ batches' = Append(batches,
                              [operations |-> Head(plan), before |-> tenant,
                               raised |-> r.raised, success |-> r.success,
                               after |-> r.tenant, calls |-> r.calls])
        /\ pc' = IF r.raised THEN "batch_raised"
                 ELSE IF r.success THEN "batch_done" ELSE "batch_failed"
  /\ UNCHANGED <<allowed_values, linked, revision, plan, direction, before,
                 snapshot>>
  /\ UNCHANGED <<model, name_template_fields, comparison>>
  /\ UNCHANGED <<scheduleVars, reconcileVars, mergeVars, chainVars>>

NextArchive == ExecuteBatch

SpecArchive == InitArchive /\ [][NextArchive]_vars

\* ------------------------------------------ executing an operation twice
\* the dropdown operations: one of every kind that has an execute() in the
\* model, on every option, at the first two indexes, with every option list
DuplicableOperations ==
  {ArchiveDropdown(DropdownName), UnarchiveDropdown(DropdownName)}
    \cup {CreateDropdown(DropdownName, l) : l \in UniqueLists(OptionNames)}
    \cup {ReorderDropdownOptions(DropdownName, l) : l \in UniqueLists(OptionNames)}
    \cup {CreateDropdownOption(DropdownName, o, i) : o \in OptionNames, i \in 0..1}
    \cup {ArchiveDropdownOption(DropdownName, o, 0) : o \in OptionNames}

\* one operation is about to be executed on the remote dropdown
InitDuplicate ==
  /\ plan \in [1..1 -> [1..1 -> DuplicableOperations]]
  /\ benchling \in RemoteDropdowns
  /\ before = benchling
  /\ linked = FALSE
  /\ direction = "none"
  /\ pc = "start"
  /\ batches = <<>>
  /\ allowed_values = <<>>
  /\ revision = NoRevision
  /\ snapshot = NoDropdown
  /\ NoSchemas
  /\ NoReconcile
  /\ NoMerge
  /\ NoSchedule
  /\ NoChain

\* o.execute(benchling_service), for the first time
ExecuteOnce ==
  /\ pc = "start"
  /\ LET op == plan[1][1]
         r == execute(op, benchling)
     IN /\ benchling' = r.dd
        /\ batches' = Append(batches, [op |-> op, before |-> benchling,
                                       ok |-> r.ok, after |-> r.dd])
        /\ pc' = IF r.ok THEN "executed" ELSE "first_raised"
  /\ UNCHANGED <<allowed_values, linked, revision, plan, direction, before,
                 snapshot>>
  /\ UNCHANGED <<schemaVars, scheduleVars, reconcileVars, mergeVars, chainVars>>

\* o.execute(benchling_service) again, after it returned
ExecuteAgain ==
  /\ pc = "executed"
  /\ LET op == plan[1][1]
         r == execute(op, benchling)
     IN /\ benchling' = r.dd
        /\ batches' = Append(batches, [op |-> op, before |-> benchling,
                                       ok |-> r.ok, after |-> r.dd])
        /\ pc' = IF r.ok THEN "executed_again" ELSE "second_raised"
  /\ UNCHANGED <<allowed_values, linked, revision, plan, direction, before,
                 snapshot>>
  /\ UNCHANGED <<schemaVars, scheduleVars, reconcileVars, mergeVars, chainVars>>

NextDuplicate == ExecuteOnce \/ ExecuteAgain

SpecDuplicate == InitDuplicate /\ [][NextDuplicate]_vars

\* ------------------------------------------- navigating the timeline
\* the steps get_nth_revision is asked to take
StepCounts == (0 - (NumRevisionIds + 1))..(NumRevisionIds + 1)

\* a call of get_nth_revision
GetNthRevision ==
  /\ pc = "loaded"
  /\ \E revision_id \in CallerIds, steps \in StepCounts :
       /\ request' = [method |-> "get_nth_revision", revision_id |-> revision_id,
                      steps |-> steps]
       /\ response' = get_nth_revision(revisions_map, revision_id, steps)
  /\ pc' = "called"
  /\ UNCHANGED <<all_raw_revisions, revisions_map>>
  /\ UNCHANGED <<dropdownVars, schemaVars, scheduleVars, reconcileVars, mergeVars>>

\* a call of get_distance
GetDistance ==
  /\ pc = "loaded"
  /\ \E revision_id_1, revision_id_2 \in CallerIds, way \in {"up", "down"} :
       /\ request' = [method |-> "get_distance", revision_id_1 |-> revision_id_1,
                      revision_id_2 |-> revision_id_2, direction |-> way]
       /\ response' = get_distance(revisions_map, revision_id_1, revision_id_2, way)
  /\ pc' = "called"
  /\ UNCHANGED <<all_raw_revisions, revisions_map>>
  /\ UNCHANGED <<dropdownVars, schemaVars, scheduleVars, reconcileVars, mergeVars>>

\* a call of get_revision_index
GetRevisionIndex ==
  /\ pc = "loaded"
  /\ \E revision_id \in CallerIds :
       /\ request' = [method |-> "get_revision_index", revision_id |-> revision_id]
       /\ response' = get_revision_index(revisions_map, revision_id)
  /\ pc' = "called"
  /\ UNCHANGED <<all_raw_revisions, revisions_map>>
  /\ UNCHANGED <<dropdownVars, schemaVars, scheduleVars, reconcileVars, mergeVars>>

NextNavigate ==
  \/ GetNthRevision
  \/ GetDistance
  \/ GetRevisionIndex

SpecNavigate == InitTimeline /\ [][NextNavigate]_vars

\* ------------------------------------------- appending to the timeline
\* most revisions written after the timeline was loaded
MaxAppends == 2

\* init_versions on a timeline loaded from an empty versions directory
InitVersions ==
  /\ pc = "loaded"
  /\ revisions_map = <<>>
  /\ \E new_id \in NewIds(revisions_map) :
       /\ request' = [method |-> "init_versions", revisions_map |-> revisions_map]
       /\ response' = Return(new_id)
       /\ revisions_map' = init_versions(revisions_map, new_id)
  /\ pc' = "initialized"
  /\ UNCHANGED all_raw_revisions
  /\ UNCHANGED <<dropdownVars, schemaVars, scheduleVars, reconcileVars, mergeVars>>

\* one more call of write_new_revision on the same timeline object
AppendRevision ==
  /\ pc \in {"loaded", "initialized", "written"}
  /\ Cardinality(DOMAIN revisions_map) < Len(all_raw_revisions) + MaxAppends
  /\ \E pairs \in PairLists, new_id \in NewIds(revisions_map) :
       LET r == write_new_revision(revisions_map, new_id, pairs)
       IN /\ request' = [method |-> "write_new_revision", operations |-> pairs,
                         revisions_map |-> revisions_map]
          /\ response' = [raised |-> r.raised, value |-> r.value]
          /\ revisions_map' = r.revisions_map
  /\ pc' = "written"
  /\ UNCHANGED all_raw_revisions
  /\ UNCHANGED <<dropdownVars, schemaVars, scheduleVars, reconcileVars, mergeVars>>

NextAppend ==
  \/ InitVersions
  \/ AppendRevision

SpecAppend == InitTimeline /\ [][NextAppend]_vars

\* ------------------------------------- generating a revision on the chain
\* the timeline has been loaded, and a dropdown is declared beside the
\* remote one
InitGenerate ==
  /\ all_raw_revisions \in RawRevisionLists
  /\ ~validate_revisions(all_raw_revisions).raised
  /\ revisions_map = validate_revisions(all_raw_revisions).revisions_map
  /\ request = NoRequest
  /\ response = Return(None)
  /\ pc = "loaded"
  /\ allowed_values \in UniqueLists(RunOptions)
  /\ benchling \in RunDropdowns
  /\ before = benchling
  /\ linked = FALSE
  /\ revision = NoRevision
  /\ plan = <<>>
  /\ direction = "none"
  /\ batches = <<>>
  /\ snapshot = NoDropdown
  /\ NoSchemas
  /\ NoReconcile
  /\ NoMerge
  /\ NoSchedule

\* a call of autogenerate_revision_file; snapshot is the remote dropdown the
\* comparison fetched, when there was a comparison
AutogenerateRevisionFile ==
  /\ pc = "loaded"
  /\ \E current_revision_id \in CallerIds, compare \in BOOLEAN,
        new_id \in NewIds(revisions_map),
        archive_order \in
          SetIterationOrders(IF benchling.exists
                             THEN OptionsToArchive(allowed_values, benchling)
                             ELSE {}) :
       LET compare_ops ==
             get_full_migration_operations(
               compare_dropdowns(allowed_values, benchling, archive_order), <<>>)
           r == autogenerate_revision_file(revisions_map, current_revision_id,
                                           compare, compare_ops, new_id)
       IN /\ request' = [method |-> "autogenerate_revision_file",
                         current_revision_id |-> current_revision_id,
                         compare |-> compare, revisions_map |-> revisions_map]
          /\ response' = [raised |-> r.raised, value |-> r.value]
          /\ revisions_map' = r.revisions_map
          /\ snapshot' = IF r.compared THEN benchling ELSE snapshot
          /\ pc' = IF r.raised THEN "raised"
                   ELSE IF r.value = None THEN "in_sync" ELSE "generated"
  /\ UNCHANGED <<allowed_values, linked, benchling, revision, plan, direction,
                 batches, before>>
  /\ UNCHANGED all_raw_revisions
  /\ UNCHANGED <<schemaVars, scheduleVars, reconcileVars, mergeVars>>

NextGenerate == AutogenerateRevisionFile

SpecGenerate == InitGenerate /\ [][NextGenerate]_vars

\* =============================================================== claims
\* the upgrade of the generated revision has run to the end
Upgraded == pc = "done" /\ direction = "up"

\* the downgrade of the generated revision has run to the end
Downgraded == pc = "done" /\ direction = "down"

\* C1: diff forward convergence (dropdowns).  Once every forward operation
\* of compare_dropdowns(A, B) has been executed in scheduled order against an
\* existing remote dropdown B, the sequence of active remote options equals
\* the declared list A, same options in the same order.
C1_ForwardConvergence ==
  (Upgraded /\ snapshot.exists) => ActiveNames(benchling.options) = allowed_values

\* C2: diff reverse restoration (dropdowns).  Once the forward operations and
\* then the stored downgrade operations (reverse operations in reversed list
\* order) have been executed, the remote dropdown has the active option
\* sequence, the archived options and the archived flag B had when compared.
C2_ReverseRestoration ==
  (Downgraded /\ snapshot.exists) =>
    /\ ActiveNames(benchling.options) = ActiveNames(snapshot.options)
    /\ Range(Names(ArchivedOptions(benchling.options)))
         = Range(Names(ArchivedOptions(snapshot.options)))
    /\ benchling.archived = snapshot.archived

\* the precedence table of section 4.3
TableRank(kind) ==
  CASE kind = "CreateDropdown" -> 10
    [] kind = "UpdateDropdownName" -> 20
    [] kind = "UnarchiveDropdown" -> 30
    [] kind = "CreateDropdownOption" -> 40
    [] kind = "UpdateDropdownOption" -> 50
    [] kind = "ArchiveDropdownOption" -> 60
    [] kind = "ReorderDropdownOptions" -> 70
    [] kind = "CreateEntitySchema" -> 80
    [] kind = "UpdateEntitySchema" -> 90
    [] kind = "UpdateEntitySchemaName" -> 100
    [] kind = "UnarchiveEntitySchema" -> 110
    [] kind = "CreateEntitySchemaField" -> 120
    [] kind = "UnarchiveEntitySchemaField" -> 130
    [] kind = "UpdateEntitySchemaField" -> 140
    [] kind = "UpdateEntitySchemaFieldName" -> 150
    [] kind = "ArchiveEntitySchemaField" -> 160
    [] kind = "ReorderEntitySchemaFields" -> 170
    [] kind = "ArchiveEntitySchema" -> 180
    [] kind = "ArchiveDropdown" -> 190

\* C3: scheduler order.  The list sorted() returns is a rearrangement of its
\* input whose kinds are non-decreasing in the section 4.3 table, and
\* operations of equal rank keep their original relative order (position i
\* of the input acts on sub-element i).
C3_SchedulerOrder ==
  pc = "scheduled" =>
    /\ Len(scheduled) = Len(operations)
    /\ Range(scheduled) = Range(operations)
    /\ \A i, j \in DOMAIN scheduled :
         i < j =>
           /\ TableRank(scheduled[i].op.kind) <= TableRank(scheduled[j].op.kind)
           /\ TableRank(scheduled[i].op.kind) = TableRank(scheduled[j].op.kind)
                => scheduled[i].op.sub < scheduled[j].op.sub

\* in the list ops, every operation of a kind in first_kinds comes before
\* every operation of a kind in later_kinds on the same resource (and, when
\* same_sub, on the same sub-element)
ComesBefore(ops, first_kinds, later_kinds, same_sub) ==
  \A i, j \in DOMAIN ops :
    (/\ ops[i].op.kind \in first_kinds
     /\ ops[j].op.kind \in later_kinds
     /\ ops[i].op.target = ops[j].op.target
     /\ same_sub => ops[i].op.sub = ops[j].op.sub) => i < j

DependencySafe(ops) ==
  /\ ComesBefore(ops, {"CreateEntitySchema"},
                 {"UpdateEntitySchemaField", "CreateEntitySchemaField"}, FALSE)
  /\ ComesBefore(ops, {"UnarchiveEntitySchema"}, {"UpdateEntitySchema"}, FALSE)
  /\ ComesBefore(ops, {"UnarchiveEntitySchemaField"},
                 {"UpdateEntitySchemaField"}, TRUE)
  /\ ComesBefore(ops, {"UnarchiveDropdown", "CreateDropdown"},
                 {"CreateDropdownOption", "UpdateDropdownOption",
                  "ArchiveDropdownOption", "ReorderDropdownOptions"}, FALSE)

\* C4: scheduler dependency safety.  In the list get_full_migration_operations
\* returns and in the per-schema list compare_entity_schemas returns, an
\* operation that creates or unarchives a resource comes before every
\* operation that mutates that resource or its sub-elements.
C4_DependencySafety ==
  pc = "compared" =>
    /\ DependencySafe(comparison.all_operations)
    /\ DependencySafe(comparison.model_operations)

\* the validate() calls and the execute() calls of one execute_operations
ValidateCalls(b) == SelectSeq(b.calls, LAMBDA c : c.call = "validate")

ExecuteCalls(b) == SelectSeq(b.calls, LAMBDA c : c.call = "execute")

\* the remote dropdown after the operations of ops took effect in order
RECURSIVE Effects(_, _)
Effects(ops, dd) ==
  IF ops = <<>> THEN dd ELSE Effects(Tail(ops), execute(Head(ops), dd).dd)

\* C5: executor pre-flight.  In every execute_operations invocation the
\* validate() calls come first and follow the list order, an execute() call
\* is made only after validate() returned for every operation of the list,
\* and when a validate() raised no execute() call was made and the remote
\* dropdown is as it was before the invocation.
C5_ExecutorPreflight ==
  \A n \in DOMAIN batches :
    LET b == batches[n]
        V == ValidateCalls(b)
        E == ExecuteCalls(b)
    IN /\ b.calls = V \o E
       /\ Len(V) <= Len(b.operations)
       /\ \A i \in DOMAIN V : V[i].op = b.operations[i]
       /\ (\A i \in DOMAIN V : V[i].ok) => Len(V) = Len(b.operations)
       /\ E # <<>> => (Len(V) = Len(b.operations) /\ \A i \in DOMAIN V : V[i].ok)
       /\ (\E i \in DOMAIN V : ~V[i].ok) =>
            (b.raised /\ E = <<>> /\ b.after = b.before)

\* a validate() raised on the second operation of a list whose first
\* operation would have changed the remote dropdown
C5_Witness ==
  \E n \in DOMAIN batches :
    /\ batches[n].raised
    /\ Len(ValidateCalls(batches[n])) = 2
    /\ execute(batches[n].operations[1], batches[n].before).dd # batches[n].before

\* C6: executor stops on first failure.  The execute() calls of an
\* execute_operations invocation follow the list order, one per position;
\* when the call at position k raised it is the last call, the invocation
\* returned False and the remote dropdown shows the effects of operations
\* 1..k-1; the invocation returned True exactly when every operation of the
\* list was executed without raising.
C6_StopsOnFirstFailure ==
  \A n \in DOMAIN batches :
    LET b == batches[n]
        E == ExecuteCalls(b)
    IN /\ Len(E) <= Len(b.operations)
       /\ \A i \in DOMAIN E : E[i].op = b.operations[i]
       /\ \A k \in DOMAIN E :
            ~E[k].ok =>
              /\ k = Len(E)
              /\ ~b.success
              /\ b.after = Effects(SubSeq(b.operations, 1, k - 1), b.before)
       /\ b.success <=>
            (/\ ~b.raised
             /\ Len(E) = Len(b.operations)
             /\ \A i \in DOMAIN E : E[i].ok)

\* of three operations the second raised in execute() after the first had
\* changed the remote dropdown, and the third was never executed
C6_Witness ==
  \E n \in DOMAIN batches :
    /\ Len(batches[n].operations) = 3
    /\ Len(ExecuteCalls(batches[n])) = 2
    /\ ~batches[n].success
    /\ ~batches[n].raised
    /\ batches[n].after # batches[n].before

\* C7: precondition failures precede all mutation in a migration run.  When
\* a validate() raised during the run, the remote dropdown equals the one
\* the run started from.
C7_NoMutationBeforeFailure ==
  pc = "raised" => benchling = before

\* the operations of the revisions before the n-th, in run order
EarlierOperations(n) ==
  Flatten([m \in 1..(n - 1) |-> batches[m].operations])

\* C7 (amended): a validate() that raises ends the run before any execute()
\* of its own revision.  The revision whose validate() raised is the last one
\* the run reached, none of its operations was executed, every earlier
\* revision of the run was executed completely, and the remote dropdown
\* shows exactly the effects of those earlier revisions.
C7_FailurePrecedesRevisionMutation ==
  \A n \in DOMAIN batches :
    batches[n].raised =>
      /\ n = Len(batches)
      /\ pc = "raised"
      /\ ExecuteCalls(batches[n]) = <<>>
      /\ benchling = batches[n].before
      /\ \A m \in 1..(n - 1) : batches[m].success
      /\ benchling = Effects(EarlierOperations(n), before)

\* the validate() of the second revision raised after the first revision
\* had changed the remote dropdown
C7_Witness ==
  /\ pc = "raised"
  /\ Len(batches) = 2
  /\ batches[2].raised
  /\ benchling # before

\* the records of the loaded map
LoadedRevisions == {revisions_map[id] : id \in DOMAIN revisions_map}

\* the ids met following down_revision_id from id, at most n of them
RECURSIVE DownWalk(_, _)
DownWalk(id, n) ==
  IF n = 0 \/ id \notin DOMAIN revisions_map THEN <<>>
  ELSE <<id>> \o DownWalk(revisions_map[id].down_revision_id, n - 1)

\* (a) unique ids, (b) one base, (c) one tip, (d) the walk down from the tip
\* visits every record exactly once
ChainInvariants ==
  /\ IsUnique([i \in DOMAIN all_raw_revisions |-> all_raw_revisions[i].id])
  /\ DOMAIN revisions_map = {all_raw_revisions[i].id : i \in DOMAIN all_raw_revisions}
  /\ Cardinality({r \in LoadedRevisions : r.down_revision_id = None}) = 1
  /\ Cardinality({r \in LoadedRevisions : r.up_revision_id = None}) = 1
  /\ \A tip \in {r \in LoadedRevisions : r.up_revision_id = None} :
       LET walk == DownWalk(tip.id, Len(all_raw_revisions) + 1)
       IN /\ Len(walk) = Len(all_raw_revisions)
          /\ Range(walk) = DOMAIN revisions_map

\* C8: chain invariants at construction.  Every revision list that
\* validate_revisions accepts has unique ids, exactly one base, exactly one
\* tip, and a walk down from the tip that visits every record exactly once.
C8_ChainInvariants ==
  pc = "loaded" => ChainInvariants

\* C8 (amended): the chain invariants hold for every accepted revision list
\* that is not empty; the empty list is accepted with an empty map.
C8_ChainInvariantsNonEmpty ==
  pc = "loaded" =>
    IF all_raw_revisions = <<>> THEN revisions_map = <<>> ELSE ChainInvariants

\* a list of three revisions given out of chain order was accepted
C8_Witness ==
  /\ pc = "loaded"
  /\ Len(all_raw_revisions) = 3
  /\ all_raw_revisions[1].down_revision_id # None
  /\ all_raw_revisions[3].down_revision_id # None

\* the positions of the records reachable from the records at positions S
\* by stepping to a record whose down_revision_id is the id of one in S
RECURSIVE ReachableFrom(_)
ReachableFrom(S) ==
  LET more == {j \in DOMAIN all_raw_revisions :
                 \E i \in S : all_raw_revisions[j].down_revision_id
                                 = all_raw_revisions[i].id}
  IN IF more \subseteq S THEN S ELSE ReachableFrom(S \cup more)

BasePositions ==
  {i \in DOMAIN all_raw_revisions : all_raw_revisions[i].down_revision_id = None}

NoBase == BasePositions = {}

ManyBases == Cardinality(BasePositions) > 1

SharedId ==
  \E i, j \in DOMAIN all_raw_revisions :
    i # j /\ all_raw_revisions[i].id = all_raw_revisions[j].id

\* some record is not reached from the base: the walk meets a record with no
\* successor before it has visited them all
Break == ReachableFrom(BasePositions) # DOMAIN all_raw_revisions

Fork ==
  \E i, j \in DOMAIN all_raw_revisions :
    /\ i # j
    /\ all_raw_revisions[i].down_revision_id # None
    /\ all_raw_revisions[i].down_revision_id = all_raw_revisions[j].down_revision_id

Defective == NoBase \/ ManyBases \/ SharedId \/ Break \/ Fork

Loaded == pc \in {"loaded", "raised"}

\* C9: chain integrity rejection.  validate_revisions raises and yields no
\* map for every revision list with no base, several bases, a shared id, a
\* break or a fork.
C9_IntegrityRejection ==
  (Loaded /\ Defective) => (pc = "raised" /\ revisions_map = <<>>)

\* C9 (amended): validate_revisions raises and yields no map for every
\* revision list that is not empty and has no base, several bases, a shared
\* id, a break or a fork.
C9_IntegrityRejectionNonEmpty ==
  (Loaded /\ all_raw_revisions # <<>> /\ Defective) =>
    (pc = "raised" /\ revisions_map = <<>>)

\* a list with one base, unique ids and no fork was rejected for a break
C9_Witness ==
  /\ pc = "raised"
  /\ all_raw_revisions # <<>>
  /\ Break
  /\ ~NoBase /\ ~ManyBases /\ ~SharedId /\ ~Fork

\* one base, each record the down revision of at most one other, all records
\* reachable, ids unique
StrictChain ==
  /\ all_raw_revisions # <<>>
  /\ ~Defective

\* C10: chain load completeness.  A strict chain given in any order loads:
\* the map holds every record under its id, and the up_revision_id of each
\* is the id of the one record whose down_revision_id is its id, None when
\* there is no such record.
C10_LoadCompleteness ==
  (Loaded /\ StrictChain) =>
    /\ pc = "loaded"
    /\ DOMAIN revisions_map = {all_raw_revisions[i].id : i \in DOMAIN all_raw_revisions}
    /\ \A i \in DOMAIN all_raw_revisions :
         LET r == all_raw_revisions[i]
             ups == {j \in DOMAIN all_raw_revisions :
                       all_raw_revisions[j].down_revision_id = r.id}
         IN /\ revisions_map[r.id].id = r.id
            /\ revisions_map[r.id].down_revision_id = r.down_revision_id
            /\ revisions_map[r.id].up_revision_id =
                 IF ups = {} THEN None
                 ELSE all_raw_revisions[CHOOSE j \in ups : TRUE].id

\* a strict chain of three revisions was loaded with its base given last
C10_Witness ==
  /\ pc = "loaded"
  /\ StrictChain
  /\ Len(all_raw_revisions) = 3
  /\ all_raw_revisions[3].down_revision_id = None

\* the ids of the loaded chain from the base to the tip, found by following
\* down_revision_id from the tip
ChainIds ==
  LET tips == {id \in DOMAIN revisions_map : revisions_map[id].up_revision_id = None}
  IN IF tips = {} THEN <<>>
     ELSE Reversed(DownWalk(CHOOSE id \in tips : TRUE,
                            Cardinality(DOMAIN revisions_map)))

\* the position of a revision of the chain, the base at 1
ChainPosition(id) == CHOOSE i \in DOMAIN ChainIds : ChainIds[i] = id

\* C11: upgrade plan.  For revisions from_id and to_id of the chain with
\* to_id strictly above from_id, get_upgrade_operations returns the revisions
\* after from_id up to and including to_id, in ascending chain order, each
\* with its own upgrade_operations.
C11_UpgradePlan ==
  (/\ pc = "called"
   /\ request.method = "get_upgrade_operations"
   /\ request.start_revision_id \in DOMAIN revisions_map
   /\ request.end_revision_id \in DOMAIN revisions_map
   /\ ChainPosition(request.end_revision_id)
        > ChainPosition(request.start_revision_id)) =>
    LET from == ChainPosition(request.start_revision_id)
        to == ChainPosition(request.end_revision_id)
    IN /\ ~response.raised
       /\ response.value =
            [i \in 1..(to - from) |->
               [key |-> ChainIds[from + i],
                value |-> revisions_map[ChainIds[from + i]].upgrade_operations]]

\* the upgrade plan from the base to the tip of a chain of three was returned
C11_Witness ==
  /\ pc = "called"
  /\ request.method = "get_upgrade_operations"
  /\ ~response.raised
  /\ Len(response.value) = 2
  /\ Len(ChainIds) = 3

\* C12: downgrade plan.  For revisions from_id and to_id of the chain with
\* to_id strictly below from_id, get_downgrade_operations returns the
\* revisions from from_id down to but excluding to_id, in descending chain
\* order, each with its own downgrade_operations.
C12_DowngradePlan ==
  (/\ pc = "called"
   /\ request.method = "get_downgrade_operations"
   /\ request.start_revision_id \in DOMAIN revisions_map
   /\ request.end_revision_id \in DOMAIN revisions_map
   /\ ChainPosition(request.end_revision_id)
        < ChainPosition(request.start_revision_id)) =>
    LET from == ChainPosition(request.start_revision_id)
        to == ChainPosition(request.end_revision_id)
    IN /\ ~response.raised
       /\ response.value =
            [i \in 1..(from - to) |->
               [key |-> ChainIds[from - i + 1],
                value |-> revisions_map[ChainIds[from - i + 1]].downgrade_operations]]

\* the downgrade plan from the tip to the base of a chain of three was
\* returned
C12_Witness ==
  /\ pc = "called"
  /\ request.method = "get_downgrade_operations"
  /\ ~response.raised
  /\ Len(response.value) = 2
  /\ Len(ChainIds) = 3

\* the revisions map as it was when write_new_revision was called
MapBefore == request.revisions_map

\* the tip of that map
TipBefore ==
  CHOOSE id \in DOMAIN MapBefore : MapBefore[id].up_revision_id = None

\* C13: append.  write_new_revision with a non-empty pair list on a chain
\* that has a tip adds exactly one revision: its down_revision_id is the tip
\* from before the call, its upgrade_operations are the forward operations
\* in list order, its downgrade_operations the reverse operations in
\* reversed list order, and afterwards it is the tip.
C13_Append ==
  (/\ pc = "called"
   /\ request.method = "write_new_revision"
   /\ request.operations # <<>>
   /\ MapBefore # <<>>) =>
    /\ ~response.raised
    /\ Cardinality(DOMAIN revisions_map \ DOMAIN MapBefore) = 1
    /\ DOMAIN MapBefore \subseteq DOMAIN revisions_map
    /\ \A id \in DOMAIN revisions_map \ DOMAIN MapBefore :
         LET new == revisions_map[id]
             n == Len(request.operations)
         IN /\ new.id = id
            /\ new.down_revision_id = TipBefore
            /\ new.upgrade_operations =
                 [i \in 1..n |-> request.operations[i].op]
            /\ new.downgrade_operations =
                 [i \in 1..n |-> request.operations[n + 1 - i].reverse_op]
            /\ new.up_revision_id = None
            /\ {t \in DOMAIN revisions_map :
                  revisions_map[t].up_revision_id = None} = {id}
            /\ revisions_map[TipBefore].up_revision_id = id

\* two different pairs were appended to a chain of two revisions
C13_Witness ==
  /\ pc = "called"
  /\ request.method = "write_new_revision"
  /\ Len(request.operations) = 2
  /\ request.operations[1] # request.operations[2]
  /\ Cardinality(DOMAIN MapBefore) = 2
  /\ Cardinality(DOMAIN revisions_map) = 3

\* C14: empty append is a no-op.  write_new_revision with an empty pair
\* list, on any chain state, returns None without raising and leaves the
\* revisions map as it was.
C14_EmptyAppendNoOp ==
  (/\ pc = "called"
   /\ request.method = "write_new_revision"
   /\ request.operations = <<>>) =>
    /\ ~response.raised
    /\ response.value = None
    /\ revisions_map = MapBefore

\* the number a signed descriptor spells after its sign, 0 when it spells
\* no positive integer
StepsOf(descriptor) ==
  LET n == int(Tail(descriptor.chars))
  IN IF n.raised THEN 0 ELSE IF n.value <= 0 THEN 0 ELSE n.value

\* the revision the claim has the upgrade descriptor name from the revision
\* current, None where the claim has the call raise
UpgradeTargetClaimed(current, descriptor) ==
  IF current \notin DOMAIN revisions_map THEN None
  ELSE LET p == ChainPosition(current)
       IN IF descriptor = HeadText THEN ChainIds[Len(ChainIds)]
          ELSE IF startswith(descriptor, "+")
          THEN IF StepsOf(descriptor) >= 1 /\ p + StepsOf(descriptor) <= Len(ChainIds)
               THEN ChainIds[p + StepsOf(descriptor)] ELSE None
          ELSE IF /\ descriptor.form = "id"
                  /\ descriptor.id \in DOMAIN revisions_map
                  /\ ChainPosition(descriptor.id) > p
          THEN descriptor.id
          ELSE None

\* the same, with head naming no revision when current is the tip
UpgradeTarget(current, descriptor) ==
  IF /\ current \in DOMAIN revisions_map
     /\ descriptor = HeadText
     /\ current = ChainIds[Len(ChainIds)]
  THEN None
  ELSE UpgradeTargetClaimed(current, descriptor)

IsUpgrade == request.method = "upgrade_benchling_tenant"

\* C15: upgrade descriptor resolution.  upgrade_benchling_tenant resolves
\* head to the tip, +n to the revision n steps above the current one and an
\* id to that revision, and returns the resolved id when the run succeeds;
\* it raises, executing nothing, when +n leads past the tip, n is no
\* positive integer, the id is unknown or not strictly above, or the current
\* revision is not in the chain.
C15_UpgradeResolution ==
  IsUpgrade =>
    IF UpgradeTargetClaimed(request.current_revision_id, request.descriptor) = None
    THEN /\ response.raised /\ pc = "raised"
         /\ batches = <<>> /\ benchling = before
    ELSE /\ ~response.raised
         /\ response.value
              = UpgradeTargetClaimed(request.current_revision_id, request.descriptor)

\* C15 (amended): as C15, and head raises as well, executing nothing, when
\* the current revision is already the tip.
C15_UpgradeResolutionAboveCurrent ==
  IsUpgrade =>
    IF UpgradeTarget(request.current_revision_id, request.descriptor) = None
    THEN /\ response.raised /\ pc = "raised"
         /\ batches = <<>> /\ benchling = before
    ELSE /\ ~response.raised
         /\ response.value
              = UpgradeTarget(request.current_revision_id, request.descriptor)
         /\ pc \in {"running", "done", "failed"}
         /\ pc = "done" =>
              Len(batches) = ChainPosition(response.value)
                               - ChainPosition(request.current_revision_id)

\* an upgrade by +2 from the base of a chain of three ran to its end
C15_Witness ==
  /\ IsUpgrade
  /\ pc = "done"
  /\ request.descriptor = Text(<<"+", "2">>)
  /\ Len(batches) = 2
  /\ Len(ChainIds) = 3

\* the revision the downgrade descriptor names from the revision current,
\* None where the call is to raise
DowngradeTarget(current, descriptor) ==
  IF current \notin DOMAIN revisions_map THEN None
  ELSE LET p == ChainPosition(current)
       IN IF startswith(descriptor, "-")
          THEN IF StepsOf(descriptor) >= 1 /\ p - StepsOf(descriptor) >= 1
               THEN ChainIds[p - StepsOf(descriptor)] ELSE None
          ELSE IF /\ descriptor.form = "id"
                  /\ descriptor.id \in DOMAIN revisions_map
                  /\ ChainPosition(descriptor.id) < p
          THEN descriptor.id
          ELSE None

IsDowngrade == request.method = "downgrade_benchling_tenant"

\* C16: downgrade descriptor resolution.  downgrade_benchling_tenant
\* resolves -n to the revision n steps below the current one, the base
\* included, and an id to that revision, and returns the resolved id when
\* the run succeeds; it raises, executing nothing, when -n leads past the
\* base, n is no positive integer, the id is unknown or not strictly below,
\* or the current revision is not in the chain.
C16_DowngradeResolution ==
  IsDowngrade =>
    IF DowngradeTarget(request.current_revision_id, request.descriptor) = None
    THEN /\ response.raised /\ pc = "raised"
         /\ batches = <<>> /\ benchling = before
    ELSE /\ ~response.raised
         /\ response.value
              = DowngradeTarget(request.current_revision_id, request.descriptor)
         /\ pc \in {"running", "done", "failed"}
         /\ pc = "done" =>
              Len(batches) = ChainPosition(request.current_revision_id)
                               - ChainPosition(response.value)

\* a downgrade by -2 from the tip of a chain of three ran to its end at the
\* base
C16_Witness ==
  /\ IsDowngrade
  /\ pc = "done"
  /\ request.descriptor = Text(<<"-", "2">>)
  /\ Len(batches) = 2
  /\ response.value = ChainIds[1]

\* the declared dropdown exists remotely, active, with its declared options
\* active in the declared order, and no undeclared dropdown is active
DropdownsInSync ==
  /\ benchling.exists
  /\ ~benchling.archived
  /\ ActiveNames(benchling.options) = allowed_values
  /\ ~(undeclared.exists /\ ~undeclared.archived)

\* the declared schema exists remotely, active, with equal properties and
\* with its declared fields active, equal and in the declared order
SchemasInSync ==
  /\ model.defined
  /\ benchling_schema.exists
  /\ ~benchling_schema.archived
  /\ benchling_schema.props = model.props
  /\ Len(benchling_schema.fields) = Len(model.columns)
  /\ \A i \in DOMAIN model.columns :
       /\ benchling_schema.fields[i].name = model.columns[i].name
       /\ benchling_schema.fields[i].props = model.columns[i].props
       /\ ~benchling_schema.fields[i].archived

\* no entity schema is declared and none exists remotely
SchemasAbsent == ~model.defined /\ ~benchling_schema.exists

\* dropdown_names selects the declared dropdown: None, or its name alone
SelectsDeclared ==
  dropdown_names = NoNames \/ dropdown_names.names = {DropdownName}

\* C17: when the remote snapshot equals the declared set, the comparison
\* returns an empty pair list for every resource and an empty "Archive"
\* group, for the dropdowns and for the entity schemas.
C17_NoOpDiff ==
  (/\ pc # "start"
   /\ DropdownsInSync
   /\ SchemasInSync \/ SchemasAbsent
   /\ SelectsDeclared)
    => /\ pc = "compared"
       /\ dropdown_diff.model_operations = <<>>
       /\ dropdown_diff.archive = <<>>
       /\ comparison.model_operations = <<>>
       /\ comparison.archive = <<>>
       /\ comparison.all_operations = <<>>

C17_Witness ==
  /\ pc = "compared"
  /\ DropdownsInSync
  /\ SchemasInSync
  /\ Len(model.columns) = NumFields
  /\ dropdown_diff.model_operations = <<>>
  /\ comparison.all_operations = <<>>

\* the single pair of a declared dropdown that does not exist remotely
CreateDropdownPair ==
  CompareOperation(CreateDropdown(DropdownName, allowed_values),
                   ArchiveDropdown(DropdownName))

\* C18: for the declared dropdown without any remote counterpart, selected
\* with or without dropdown_names, the comparison returns exactly one pair
\* for it: CreateDropdown(name, declared options) with the reverse
\* ArchiveDropdown(name).
C18_CreateMissingDropdown ==
  (pc # "start" /\ ~benchling.exists /\ SelectsDeclared)
    => /\ ~dropdown_diff.raised
       /\ dropdown_diff.model_operations = <<CreateDropdownPair>>

\* the declared dropdown exists remotely, active, and has been compared
ActiveCompared ==
  /\ pc = "compared"
  /\ benchling.exists
  /\ ~benchling.archived
  /\ SelectsDeclared

\* the declared options that are not among the remote active options
OptionsDeclaredOnly ==
  Range(allowed_values) \ Range(ActiveNames(benchling.options))

\* the pair that creates the declared option at its declared position
CreateOptionPair(option) ==
  CompareOperation(
    CreateDropdownOption(DropdownName, option, ListIndex(allowed_values, option)),
    ArchiveDropdownOption(DropdownName, option, ListIndex(allowed_values, option)))

\* the remote active options are a prefix of the declared list
ActiveIsPrefix ==
  /\ Len(ActiveNames(benchling.options)) <= Len(allowed_values)
  /\ ActiveNames(benchling.options)
       = SubSeq(allowed_values, 1, Len(ActiveNames(benchling.options)))

\* C19: for an active remote dropdown every declared option that is not a
\* remote active option has exactly one pair, CreateDropdownOption at the
\* option's declared position with the reverse ArchiveDropdownOption at the
\* same position; when the remote active options are a prefix of the
\* declared list these pairs, in declared order, are the whole pair list.
C19_CreateOptionPair ==
  ActiveCompared =>
    LET ops == dropdown_diff.model_operations
        n == Len(ActiveNames(benchling.options))
    IN /\ \A o \in OptionsDeclaredOnly :
            /\ Cardinality({i \in DOMAIN ops :
                              ops[i].op.sub = o /\ ops[i].reverse_op.sub = o}) = 1
            /\ \E i \in DOMAIN ops : ops[i] = CreateOptionPair(o)
       /\ ActiveIsPrefix =>
            ops = [k \in 1..(Len(allowed_values) - n) |->
                     CreateOptionPair(allowed_values[n + k])]

C19_Witness ==
  /\ ActiveCompared
  /\ ActiveIsPrefix
  /\ Len(ActiveNames(benchling.options)) = 1
  /\ Len(allowed_values) = NumOptions
  /\ Len(dropdown_diff.model_operations) = NumOptions - 1

\* the remote dropdown with its archive_record cleared, options untouched
TreatedAsActive(bd) == [bd EXCEPT !.archived = FALSE]

\* the pair lists the comparison returns for an active remote dropdown, one
\* for every order in which the options to archive can be iterated
ActiveCasePairLists(bd) ==
  {compare_dropdowns(allowed_values, bd, archive_order) :
     archive_order \in SetIterationOrders(OptionsToArchive(allowed_values, bd))}

UnarchiveDropdownPair ==
  CompareOperation(UnarchiveDropdown(DropdownName), ArchiveDropdown(DropdownName))

\* C20: for a declared dropdown whose remote counterpart is archived, the
\* comparison returns the UnarchiveDropdown/ArchiveDropdown pair first and
\* then exactly the option pairs it returns for the same remote dropdown
\* when that dropdown is active.
C20_ArchivedAsActive ==
  (pc = "compared" /\ benchling.exists /\ benchling.archived /\ SelectsDeclared)
    => \E pairs \in ActiveCasePairLists(TreatedAsActive(benchling)) :
         dropdown_diff.model_operations = <<UnarchiveDropdownPair>> \o pairs

\* the declared dropdowns the comparison is asked about: all of them, or
\* with dropdown_names those it names
DeclaredSelected ==
  IF dropdown_names.given THEN dropdown_names.names \cap {DropdownName}
  ELSE {DropdownName}

\* the remote dropdowns the comparison is asked about: all that exist, or
\* with a non-empty dropdown_names those of the dropdowns it names
RemoteConsidered ==
  LET existing == (IF benchling.exists THEN {DropdownName} ELSE {})
                    \cup (IF undeclared.exists THEN {UndeclaredName} ELSE {})
  IN IF dropdown_names.given /\ dropdown_names.names # {}
     THEN existing \cap dropdown_names.names
     ELSE existing

\* the remote dropdown of that name is archived
RemoteArchived(name) ==
  IF name = DropdownName THEN benchling.archived ELSE undeclared.archived

ArchiveDropdownPair(name) ==
  CompareOperation(ArchiveDropdown(name), UnarchiveDropdown(name))

ArchiveSchemaPair ==
  CompareOperation(ArchiveEntitySchema(SchemaName), UnarchiveEntitySchema(SchemaName))

ReorderPairs ==
  SelectSeq(dropdown_diff.model_operations,
            LAMBDA p : p.op.kind = "ReorderDropdownOptions"
                         \/ p.reverse_op.kind = "ReorderDropdownOptions")

\* the options of the list that are declared
DeclaredOf(names) == SelectSeq(names, LAMBDA o : o \in Range(allowed_values))

\* the options present on both sides, in remote order and in declared order
CommonRemoteOrder == DeclaredOf(ActiveNames(benchling.options))

CommonDeclaredOrder ==
  SelectSeq(allowed_values, LAMBDA o : o \in Range(ActiveNames(benchling.options)))

\* every remote option is active and declared
OnlyCommonOptions ==
  /\ ActiveOptions(benchling.options) = benchling.options
  /\ Range(Names(benchling.options)) \subseteq Range(allowed_values)

SchemaActiveCompared ==
  /\ pc = "compared"
  /\ model.defined
  /\ benchling_schema.exists
  /\ ~benchling_schema.archived

\* the declared columns that exist remotely as an archived field
ColumnsRedeclared ==
  Range(ColumnNames(model.columns)) \cap ArchivedFieldNames(benchling_schema)

\* the pairs of the declared schema whose forward operation is of that kind
\* and on that field
FieldPairs(kind, field) ==
  SelectSeq(comparison.model_operations,
            LAMBDA p : p.op.kind = kind /\ p.op.sub = field)

\* the pair that unarchives the field at its declared position
UnarchiveFieldPair(field) ==
  CompareOperation(
    UnarchiveEntitySchemaField(SchemaName, field,
                               ListIndex(ColumnNames(model.columns), field)),
    ArchiveEntitySchemaField(SchemaName, field,
                             ListIndex(ColumnNames(model.columns), field)))

FieldsDiffering(old, new) == {k \in DOMAIN new : old[k] # new[k]}

DryRunEnded == pc \in {"dry_run_returned", "dry_run_raised"}

\* the operations of the calls of one kind, in call order
CalledWith(calls, call) ==
  LET made == SelectSeq(calls, LAMBDA c : c.call = call)
  IN [i \in DOMAIN made |-> made[i].op]

\* the dry run called no execute() and left the remote dropdown as it was
NothingExecuted ==
  /\ CalledWith(batches[1].calls, "execute") = <<>>
  /\ benchling = before
  /\ batches[1].after = batches[1].before

\* the operations up to and including the first whose validate() raises
UpToFirstRejected(ops, islinked) ==
  LET rejected == {i \in DOMAIN ops : ~validate(ops[i], islinked)}
  IN IF rejected = {} THEN ops
     ELSE SubSeq(ops, 1, CHOOSE i \in rejected : \A j \in rejected : i <= j)

\* C25 as stated: a dry run calls no execute(), leaves the remote state
\* unchanged, and prints describe() for every operation of the list, in list
\* order.
C25_DryRunDescribesAll ==
  DryRunEnded =>
    /\ NothingExecuted
    /\ CalledWith(batches[1].calls, "describe") = batches[1].operations

\* C25: a dry run calls no execute() and leaves the remote state unchanged;
\* it prints describe() and then calls validate() for each operation in list
\* order, up to and including the first operation whose validate() raises,
\* which is every operation when it returns.
C25_DryRunDescribesValidated ==
  DryRunEnded =>
    LET b == batches[1]
        reached == UpToFirstRejected(b.operations, linked)
    IN /\ NothingExecuted
       /\ CalledWith(b.calls, "describe") = reached
       /\ CalledWith(b.calls, "validate") = reached
       /\ \A i \in DOMAIN reached :
            /\ b.calls[2 * i - 1].call = "describe"
            /\ b.calls[2 * i].call = "validate"
       /\ b.raised <=> reached # <<>> /\ ~validate(reached[Len(reached)], linked)
       /\ ~b.raised => reached = b.operations

\* a dry run of three operations that raised at the second
C25_Witness ==
  /\ pc = "dry_run_raised"
  /\ Len(batches[1].operations) = 3
  /\ Len(CalledWith(batches[1].calls, "describe")) = 2

\* execute_operations has ended on the batch
BatchEnded == pc \in {"batch_raised", "batch_done", "batch_failed"}

\* the operation archives a field that the name template of the schema uses
ArchivesTemplateField(op) ==
  /\ op.kind = "ArchiveEntitySchemaField"
  /\ op.sub \in name_template_fields

\* the operation archives a dropdown that a declared schema column links
ArchivesLinkedDropdown(op) == op.kind = "ArchiveDropdown" /\ linked

\* execute_operations raised from a validate() before any execute() was called
AbortedAtValidation ==
  /\ batches[1].raised
  /\ CalledWith(batches[1].calls, "execute") = <<>>
  /\ batches[1].after = batches[1].before

\* C26: a batch holding an ArchiveEntitySchemaField on a field used in the
\* name template, or an ArchiveDropdown on a linked dropdown, is aborted by
\* the validate() of that operation before any execute() runs.
C26_ReferencedArchiveRejected ==
  BatchEnded =>
    ((\E i \in DOMAIN batches[1].operations :
         \/ ArchivesTemplateField(batches[1].operations[i])
         \/ ArchivesLinkedDropdown(batches[1].operations[i]))
       => AbortedAtValidation)

\* the part of C26 that is about dropdowns: a batch holding an ArchiveDropdown
\* on a linked dropdown is aborted before any execute() runs
LinkedDropdownArchiveRejected ==
  BatchEnded =>
    ((\E i \in DOMAIN batches[1].operations :
         ArchivesLinkedDropdown(batches[1].operations[i]))
       => AbortedAtValidation)

\* the operation has been executed a second time
ExecutedTwice == pc \in {"executed_again", "second_raised"}

\* the second execute() raised and left the remote dropdown as the first
\* execute() left it
SecondRaised ==
  /\ ~batches[2].ok
  /\ batches[2].after = batches[1].after
  /\ benchling = batches[1].after

\* CreateDropdown.execute on an existing dropdown: unarchives it when it is
\* archived with the same options, raises otherwise
CreateToleratesArchivedOnly ==
  LET c == batches[1]
  IN (c.op.kind = "CreateDropdown" /\ c.before.exists) =>
       IF c.before.archived /\ c.op.list = Names(c.before.options)
       THEN c.ok /\ c.after = [c.before EXCEPT !.archived = FALSE]
       ELSE ~c.ok /\ c.after = c.before

\* C27: for every operation kind, a second execute() on the state the first
\* successful execute() produced raises and leaves the remote state unchanged;
\* CreateDropdown on an existing dropdown only succeeds, by unarchiving, when
\* the dropdown is archived with identical options.
C27_DuplicateExecuteRaises ==
  /\ ExecutedTwice => SecondRaised
  /\ batches # <<>> => CreateToleratesArchivedOnly

\* the kinds whose second execute() raises
RaisingTwiceKinds == {"CreateDropdown", "ArchiveDropdown", "UnarchiveDropdown"}

\* the part of C27 that holds: a second execute() of CreateDropdown,
\* ArchiveDropdown or UnarchiveDropdown raises and changes nothing, a second
\* execute() of the option operations returns and changes nothing, and
\* CreateDropdown tolerates only the archived dropdown of identical options
DuplicateDropdownExecuteRaises ==
  /\ ExecutedTwice =>
       /\ benchling = batches[1].after
       /\ batches[2].ok <=> batches[2].op.kind \notin RaisingTwiceKinds
  /\ batches # <<>> => CreateToleratesArchivedOnly

\* a method of the timeline has been called with ids of the chain
CalledOnChain(method, ids) ==
  /\ pc = "called"
  /\ request.method = method
  /\ ids \subseteq DOMAIN revisions_map

\* get_nth_revision returns the revision steps positions further up the
\* chain, and raises when there is none
NthRevisionConsistent ==
  CalledOnChain("get_nth_revision", {request.revision_id}) =>
    LET target == ChainPosition(request.revision_id) + request.steps
    IN IF target \in DOMAIN ChainIds
       THEN ~response.raised /\ response.value = revisions_map[ChainIds[target]]
       ELSE response.raised

\* get_distance returns k when the second revision is k steps from the first
\* in the direction, and raises when it is on the other side
DistanceConsistent ==
  CalledOnChain("get_distance", {request.revision_id_1, request.revision_id_2}) =>
    LET up == ChainPosition(request.revision_id_2)
                - ChainPosition(request.revision_id_1)
        k == IF request.direction = "up" THEN up ELSE 0 - up
    IN IF k >= 0 THEN ~response.raised /\ response.value = k
       ELSE response.raised

\* get_revision_index is the distance up to the tip
IndexConsistent ==
  CalledOnChain("get_revision_index", {request.revision_id}) =>
    LET tip == ChainIds[Len(ChainIds)]
    IN /\ ~response.raised
       /\ response = get_distance(revisions_map, request.revision_id, tip, "up")
       /\ response.value = Len(ChainIds) - ChainPosition(request.revision_id)
       /\ request.revision_id = tip => response.value = 0

\* the ids the last call was made with
RequestedIds ==
  IF request.method = "get_distance"
  THEN {request.revision_id_1, request.revision_id_2}
  ELSE {request.revision_id}

\* a call with an id that no revision of the chain has raises
UnknownIdRaises ==
  (/\ pc = "called"
   /\ ~(RequestedIds \subseteq DOMAIN revisions_map)) => response.raised

\* C28: on a loaded chain, get_nth_revision(id, n) returns the revision |n|
\* steps above (n > 0) or below (n < 0) id, id itself for n = 0, and raises
\* when the walk leaves the chain; get_distance(id1, id2, direction) returns
\* k exactly when id2 is k steps from id1 in that direction and raises when
\* id2 is not reachable that way; get_revision_index(id) equals
\* get_distance(id, tip, "up") and is 0 for the tip.
C28_NavigationConsistency ==
  /\ NthRevisionConsistent
  /\ DistanceConsistent
  /\ IndexConsistent
  /\ UnknownIdRaises

\* two steps down from the tip of a chain of three revisions
C28_Witness ==
  /\ CalledOnChain("get_nth_revision", {request.revision_id})
  /\ Len(ChainIds) = 3
  /\ request.revision_id = ChainIds[3]
  /\ request.steps = 0 - 2
  /\ ~response.raised
  /\ response.value.id = ChainIds[1]

\* the map is a strict chain: every record is stored under its id, there is
\* one base and one tip, the up and down links mirror each other, and the
\* walk down from the tip visits every record
MapStrictChain ==
  LET ids == DOMAIN revisions_map
      tips == {id \in ids : revisions_map[id].up_revision_id = None}
  IN /\ \A id \in ids : revisions_map[id].id = id
     /\ Cardinality({id \in ids : revisions_map[id].down_revision_id = None}) = 1
     /\ Cardinality(tips) = 1
     /\ \A id \in ids :
          LET r == revisions_map[id]
          IN /\ r.down_revision_id # None =>
                  /\ r.down_revision_id \in ids
                  /\ revisions_map[r.down_revision_id].up_revision_id = id
             /\ r.up_revision_id # None =>
                  /\ r.up_revision_id \in ids
                  /\ revisions_map[r.up_revision_id].down_revision_id = id
     /\ \A tip \in tips :
          Range(DownWalk(tip, Cardinality(ids) + 1)) = ids

\* write_new_revision left every record it found as it was, but for the
\* up_revision_id of the tip it found, which names the record it added
ExistingRecordsKept ==
  \A id \in DOMAIN MapBefore :
    /\ id \in DOMAIN revisions_map
    /\ IF id = TipBefore /\ DOMAIN revisions_map # DOMAIN MapBefore
       THEN /\ revisions_map[id] =
                 [MapBefore[id] EXCEPT !.up_revision_id = response.value]
            /\ DOMAIN revisions_map \ DOMAIN MapBefore = {response.value}
       ELSE revisions_map[id] = MapBefore[id]

\* C29: after any sequence of write_new_revision calls on a loaded (or
\* initialized) chain the map is still a strict chain, and each call changes
\* no field of the records that existed before it except the up_revision_id
\* of the previous tip.
C29_AppendPreservesChain ==
  /\ revisions_map # <<>> => MapStrictChain
  /\ (pc = "written" /\ MapBefore # <<>>) => ExistingRecordsKept

\* the second revision written to a chain loaded from two files
C29_Witness ==
  /\ pc = "written"
  /\ Len(all_raw_revisions) = 2
  /\ Cardinality(DOMAIN MapBefore) = 3
  /\ Cardinality(DOMAIN revisions_map) = 4

\* autogenerate_revision_file has ended, by returning or by raising
GenerateEnded ==
  /\ pc \in {"raised", "in_sync", "generated"}
  /\ request.method = "autogenerate_revision_file"

\* the tenant was at the tip of the chain when the call was made
TenantAtTip ==
  /\ request.current_revision_id \in DOMAIN MapBefore
  /\ request.current_revision_id = TipBefore

\* C30: autogenerate_revision_file appends a revision only when the tenant's
\* current revision id is a revision of the chain and is its tip; otherwise
\* it raises before any comparison is made and leaves the chain as it was.
C30_GenerateOnlyAtTip ==
  GenerateEnded =>
    /\ revisions_map # MapBefore => TenantAtTip
    /\ ~TenantAtTip =>
         /\ response.raised
         /\ snapshot = NoDropdown
         /\ revisions_map = MapBefore

\* a revision was appended for a tenant at the tip of a chain of two
C30_Witness ==
  /\ GenerateEnded
  /\ Cardinality(DOMAIN MapBefore) = 2
  /\ TenantAtTip
  /\ pc = "generated"
  /\ Cardinality(DOMAIN revisions_map) = 3

====
